---- MODULE Spec2Model ----
(***************************************************************************)
(* A model of the 2D geometry kernel of src/src/types.d.ts (Point, Circle, *)
(* Line, Polygon).                                                         *)
(*                                                                         *)
(* Numbers.  A JavaScript number is modelled by an exact fraction <<n, d>> *)
(* in lowest terms with d > 0; the three non-finite values are the         *)
(* fractions with denominator 0: <<1, 0>> is Infinity, <<-1, 0>> is        *)
(* -Infinity and <<0, 0>> is NaN.  Rounding is not modelled.  A length     *)
(* obtained from Math.sqrt is carried as its square (see Point_distanceSq).*)
(*                                                                         *)
(* Objects.  A Point is a record [x, y].  Where object identity matters    *)
(* (the ownership claims) Points live in `heap`, a sequence indexed by     *)
(* address, and shapes hold addresses.                                     *)
(***************************************************************************)
EXTENDS Integers, Sequences, FiniteSets, TLC

VARIABLES
    pc,     \* position of the calling program: "call" before, "done" after
    op,     \* name of the last operation performed
    inp,    \* arguments of the call under study
    out,    \* what the call returned / left behind
    heap,   \* object store: address -> Point value
    poly,   \* Polygon.vertices of the polygon under study: Seq(address)
    held    \* references the caller holds (points, lines, circles, passed)

vars == <<pc, op, inp, out, heap, poly, held>>

None == [none |-> TRUE]

---------------------------------------------------------------------------
(* Exact arithmetic on fractions.                                          *)

Abs(n) == IF n < 0 THEN -n ELSE n

Sgn(n) == IF n > 0 THEN 1 ELSE IF n < 0 THEN -1 ELSE 0

RECURSIVE GCD(_, _)
GCD(a, b) == IF b = 0 THEN a ELSE GCD(b, a % b)

\* n/d in lowest terms with a positive denominator (d # 0).
Frac(n, d) ==
    IF d = 1 THEN <<n, 1>>
    ELSE LET g == GCD(Abs(n), Abs(d))
             s == IF d < 0 THEN -1 ELSE 1
         IN  <<(s * n) \div g, (s * d) \div g>>

Num(n) == <<n, 1>>
Zero == <<0, 1>>
One == <<1, 1>>

IsFinite(a) == a[2] # 0

Add(a, b) == Frac(a[1] * b[2] + b[1] * a[2], a[2] * b[2])
Sub(a, b) == Frac(a[1] * b[2] - b[1] * a[2], a[2] * b[2])
Mul(a, b) == Frac(a[1] * b[1], a[2] * b[2])
Neg(a) == <<-a[1], a[2]>>
AbsF(a) == <<Abs(a[1]), a[2]>>

\* JavaScript's `/`: a zero divisor gives Infinity, -Infinity or NaN.
Div(a, b) ==
    IF b[1] = 0 THEN <<Sgn(a[1]), 0>>
    ELSE Frac(a[1] * b[2], a[2] * b[1])

IsNaN(a) == a[1] = 0 /\ a[2] = 0
NaN == <<0, 0>>

\* Comparisons; each is false when an operand is NaN.
Lt(a, b) == a[1] * b[2] < b[1] * a[2]
Le(a, b) == ~IsNaN(a) /\ ~IsNaN(b) /\ a[1] * b[2] <= b[1] * a[2]
Gt(a, b) == Lt(b, a)
Ge(a, b) == Le(b, a)

MinF(a, b) == IF Lt(b, a) THEN b ELSE a
MaxF(a, b) == IF Lt(a, b) THEN b ELSE a

\* The literal 1e-10 is 1 / (EpsScale * EpsScale).
EpsScale == 100000

\* Math.abs(a) < 1e-10, computed without leaving 32-bit integers:
\* |n|/d < 1/S^2  <=>  |n| * S * S < d  <=>  |n| * S <= (d - 1) \div S.
AbsLtEps(a) == Abs(a[1]) * EpsScale <= (a[2] - 1) \div EpsScale

\* Math.abs(a) > 1e-10:  |n| * S * S > d  <=>  |n| * S > d \div S.
AbsGtEps(a) == Abs(a[1]) * EpsScale > a[2] \div EpsScale

---------------------------------------------------------------------------
(* Point (src/src/types.d.ts 14-257).  The instance methods mutate the     *)
(* receiver; here each returns the receiver's new value.                   *)

Pt(x, y) == [x |-> x, y |-> y]

PtI(i, j) == Pt(Num(i), Num(j))

Point_zero == PtI(0, 0)

Point_add(this, point) == Pt(Add(this.x, point.x), Add(this.y, point.y))

Point_subtract(this, point) == Pt(Sub(this.x, point.x), Sub(this.y, point.y))

Point_multiply(this, scalar) == Pt(Mul(this.x, scalar), Mul(this.y, scalar))

\* Mutant of Point_divide: the zero test is missing.
Point_divide_unguarded(this, scalar) ==
    [threw |-> FALSE,
     this |-> Pt(Div(this.x, scalar), Div(this.y, scalar)),
     ret |-> Pt(Div(this.x, scalar), Div(this.y, scalar))]

\* divide(scalar): throws 'Division by zero' before touching the receiver,
\* otherwise divides in place and returns the receiver.
Point_divide(this, scalar) ==
    IF scalar = Zero
    THEN [threw |-> TRUE, this |-> this, ret |-> None]
    ELSE [threw |-> FALSE,
          this |-> Pt(Div(this.x, scalar), Div(this.y, scalar)),
          ret |-> Pt(Div(this.x, scalar), Div(this.y, scalar))]

\* static divide(point, scalar): throws, or returns a new Point; the input
\* point is only read.
Point_divide_static(point, scalar) ==
    IF scalar = Zero
    THEN [threw |-> TRUE, this |-> point, ret |-> None]
    ELSE [threw |-> FALSE,
          this |-> point,
          ret |-> Pt(Div(point.x, scalar), Div(point.y, scalar))]

\* The square of Point.distance(p1, p2) (the code takes Math.sqrt of this).
Point_distanceSq(p1, p2) ==
    LET dx == Sub(p2.x, p1.x)
        dy == Sub(p2.y, p1.y)
    IN  Add(Mul(dx, dx), Mul(dy, dy))

Point_lerp(p1, p2, t) ==
    Pt(Add(p1.x, Mul(Sub(p2.x, p1.x), t)), Add(p1.y, Mul(Sub(p2.y, p1.y), t)))

\* equals(point) with the default tolerance 1e-10.
Point_equals(this, point) ==
    /\ AbsLtEps(Sub(this.x, point.x))
    /\ AbsLtEps(Sub(this.y, point.y))

---------------------------------------------------------------------------
(* Input domains.                                                          *)

GridPoints(lo, hi) == {PtI(i, j) : i \in lo..hi, j \in lo..hi}

RECURSIVE SeqsUpTo(_, _)
SeqsUpTo(S, n) ==
    IF n = 0 THEN {<<>>}
    ELSE LET shorter == SeqsUpTo(S, n - 1)
         IN  shorter \cup {Append(s, e) : s \in {t \in shorter : Len(t) = n - 1}, e \in S}

Range(s) == {s[i] : i \in DOMAIN s}

\* The variables a pure-function specification does not use.
NoHeap ==
    /\ heap = <<>>
    /\ poly = <<>>
    /\ held = None

PureFrame == UNCHANGED <<inp, heap, poly, held>>

---------------------------------------------------------------------------
(* SpecPointDivide: Point.divide and the static Point.divide on a grid of  *)
(* receivers and a set of scalars that includes 0.                         *)

DivCoordMax == 2
DivScalarMax == 2

DivScalars ==
    {Num(k) : k \in -DivScalarMax..DivScalarMax}
        \cup {Frac(1, k) : k \in 2..(DivScalarMax + 1)}

InitPointDivide ==
    /\ pc = "call"
    /\ op = "none"
    /\ inp \in [point : GridPoints(-DivCoordMax, DivCoordMax), scalar : DivScalars]
    /\ out = None
    /\ NoHeap

CallDivide ==
    /\ pc = "call"
    /\ pc' = "done"
    /\ op' = "divide"
    /\ out' = Point_divide(inp.point, inp.scalar)
    /\ PureFrame

CallDivideStatic ==
    /\ pc = "call"
    /\ pc' = "done"
    /\ op' = "divide_static"
    /\ out' = Point_divide_static(inp.point, inp.scalar)
    /\ PureFrame

NextPointDivide == CallDivide \/ CallDivideStatic

SpecPointDivide == InitPointDivide /\ [][NextPointDivide]_vars

\* C4: divide (instance and static) throws exactly when the scalar is 0;
\* when it throws, the receiver / input point keeps its coordinates; and the
\* point is never left holding NaN or an infinity.  The static form never
\* changes its input, the instance form stores the quotient.
C4_DivideByZero ==
    (pc = "done" /\ op \in {"divide", "divide_static"}) =>
        /\ out.threw <=> (inp.scalar = Zero)
        /\ out.threw => out.this = inp.point
        /\ IsFinite(out.this.x) /\ IsFinite(out.this.y)
        /\ ~out.threw =>
              /\ IsFinite(out.ret.x) /\ IsFinite(out.ret.y)
              /\ Mul(out.ret.x, inp.scalar) = inp.point.x
              /\ Mul(out.ret.y, inp.scalar) = inp.point.y
              /\ (op = "divide") => out.this = out.ret
              /\ (op = "divide_static") => out.this = inp.point

\* A division by zero was attempted on a point with a non-zero coordinate.
C4_Witness ==
    /\ pc = "done"
    /\ op = "divide"
    /\ inp.scalar = Zero
    /\ inp.point.x # Zero
    /\ out.threw

---------------------------------------------------------------------------
(* Line (src/src/types.d.ts 1073-1322) as a value [start, end], and        *)
(* Circle.fromThreePoints (1030-1055).                                     *)

Ln(start, end) == [start |-> start, end |-> end]

Line_pointAt(this, t) == Point_lerp(this.start, this.end, t)

\* The square of distanceToPoint(point): the code returns the square root
\* of this number.
Line_distanceToPointSq(this, point) ==
    LET l2 == Point_distanceSq(this.start, this.end)
        t == Div(Add(Mul(Sub(point.x, this.start.x), Sub(this.end.x, this.start.x)),
                     Mul(Sub(point.y, this.start.y), Sub(this.end.y, this.start.y))),
                 l2)
        tClamped == MaxF(Zero, MinF(One, t))
        projection == Line_pointAt(this, tClamped)
    IN  IF l2 = Zero THEN Point_distanceSq(point, this.start)
        ELSE Point_distanceSq(point, projection)

\* Mutant of Line_intersects: the parameter tests exclude the end points.
Line_intersects_strict(this, line) ==
    LET p0 == this.start
        p1 == this.end
        p2 == line.start
        p3 == line.end
        s1_x == Sub(p1.x, p0.x)
        s1_y == Sub(p1.y, p0.y)
        s2_x == Sub(p3.x, p2.x)
        s2_y == Sub(p3.y, p2.y)
        denominator == Add(Mul(Neg(s2_x), s1_y), Mul(s1_x, s2_y))
        s == Div(Add(Mul(Neg(s1_y), Sub(p0.x, p2.x)), Mul(s1_x, Sub(p0.y, p2.y))),
                 denominator)
        t == Div(Sub(Mul(s2_x, Sub(p0.y, p2.y)), Mul(s2_y, Sub(p0.x, p2.x))),
                 denominator)
    IN  IF AbsLtEps(denominator) THEN None
        ELSE IF Gt(s, Zero) /\ Lt(s, One) /\ Gt(t, Zero) /\ Lt(t, One)
             THEN Pt(Add(p0.x, Mul(t, s1_x)), Add(p0.y, Mul(t, s1_y)))
             ELSE None

\* intersects(line): the intersection Point, or None for the code's null.
Line_intersects(this, line) ==
    LET p0 == this.start
        p1 == this.end
        p2 == line.start
        p3 == line.end
        s1_x == Sub(p1.x, p0.x)
        s1_y == Sub(p1.y, p0.y)
        s2_x == Sub(p3.x, p2.x)
        s2_y == Sub(p3.y, p2.y)
        denominator == Add(Mul(Neg(s2_x), s1_y), Mul(s1_x, s2_y))
        s == Div(Add(Mul(Neg(s1_y), Sub(p0.x, p2.x)), Mul(s1_x, Sub(p0.y, p2.y))),
                 denominator)
        t == Div(Sub(Mul(s2_x, Sub(p0.y, p2.y)), Mul(s2_y, Sub(p0.x, p2.x))),
                 denominator)
    IN  IF AbsLtEps(denominator) THEN None
        ELSE IF Ge(s, Zero) /\ Le(s, One) /\ Ge(t, Zero) /\ Le(t, One)
             THEN Pt(Add(p0.x, Mul(t, s1_x)), Add(p0.y, Mul(t, s1_y)))
             ELSE None

\* Mutant of Circle_fromThreePoints: the collinearity test forgets Math.abs.
Circle_fromThreePoints_noAbs(p1, p2, p3) ==
    LET D == Mul(Num(2), Add(Add(Mul(p1.x, Sub(p2.y, p3.y)), Mul(p2.x, Sub(p3.y, p1.y))),
                             Mul(p3.x, Sub(p1.y, p2.y))))
        p1Sq == Add(Mul(p1.x, p1.x), Mul(p1.y, p1.y))
        p2Sq == Add(Mul(p2.x, p2.x), Mul(p2.y, p2.y))
        p3Sq == Add(Mul(p3.x, p3.x), Mul(p3.y, p3.y))
        centerX == Div(Add(Add(Mul(p1Sq, Sub(p2.y, p3.y)), Mul(p2Sq, Sub(p3.y, p1.y))),
                           Mul(p3Sq, Sub(p1.y, p2.y))), D)
        centerY == Div(Add(Add(Mul(p1Sq, Sub(p3.x, p2.x)), Mul(p2Sq, Sub(p1.x, p3.x))),
                           Mul(p3Sq, Sub(p2.x, p1.x))), D)
        center == Pt(centerX, centerY)
    IN  IF Le(D, Zero) THEN None
        ELSE [center |-> center, radiusSq |-> Point_distanceSq(center, p1)]

\* fromThreePoints(p1, p2, p3): None for null, else the circle, its radius
\* carried as radiusSq (radius = Math.sqrt(radiusSq)).
Circle_fromThreePoints(p1, p2, p3) ==
    LET D == Mul(Num(2), Add(Add(Mul(p1.x, Sub(p2.y, p3.y)), Mul(p2.x, Sub(p3.y, p1.y))),
                             Mul(p3.x, Sub(p1.y, p2.y))))
        p1Sq == Add(Mul(p1.x, p1.x), Mul(p1.y, p1.y))
        p2Sq == Add(Mul(p2.x, p2.x), Mul(p2.y, p2.y))
        p3Sq == Add(Mul(p3.x, p3.x), Mul(p3.y, p3.y))
        centerX == Div(Add(Add(Mul(p1Sq, Sub(p2.y, p3.y)), Mul(p2Sq, Sub(p3.y, p1.y))),
                           Mul(p3Sq, Sub(p1.y, p2.y))), D)
        centerY == Div(Add(Add(Mul(p1Sq, Sub(p3.x, p2.x)), Mul(p2Sq, Sub(p1.x, p3.x))),
                           Mul(p3Sq, Sub(p2.x, p1.x))), D)
        center == Pt(centerX, centerY)
    IN  IF AbsLtEps(D) THEN None
        ELSE [center |-> center, radiusSq |-> Point_distanceSq(center, p1)]

---------------------------------------------------------------------------
(* Polygon (src/src/types.d.ts 1328-2027) as a value: `vertices` is the    *)
(* sequence of vertex values, vertices[i] of the code being vertices[i+1]  *)
(* here.  Object identity of the vertices is modelled separately (heap).   *)

\* The code's this.vertices[i] for a 0-based index i.
At(vertices, i) == vertices[i + 1]

Polygon_isClosed(vertices) ==
    /\ Len(vertices) > 2
    /\ Point_equals(vertices[1], vertices[Len(vertices)])

\* close(): appends a copy of the first vertex when there are more than two
\* vertices and the polygon is not closed yet.
Polygon_close(vertices) ==
    IF Len(vertices) > 2 /\ ~Polygon_isClosed(vertices)
    THEN Append(vertices, vertices[1])
    ELSE vertices

\* The z-component of the cross product of (p2 - p1) and (p3 - p2).
CrossProductZ(p1, p2, p3) ==
    Sub(Mul(Sub(p2.x, p1.x), Sub(p3.y, p2.y)), Mul(Sub(p2.y, p1.y), Sub(p3.x, p2.x)))

\* The for loop of isConvex from index i with the sign found so far.
RECURSIVE isConvex_loop(_, _, _, _)
isConvex_loop(vertices, pointsToTest, i, sign) ==
    IF i >= pointsToTest THEN TRUE
    ELSE LET n == Len(vertices)
             p1 == At(vertices, i)
             p2 == At(vertices, (i + 1) % n)
             p3 == At(vertices, (i + 2) % n)
             crossProductZ == CrossProductZ(p1, p2, p3)
             currentSign == IF Gt(crossProductZ, Zero) THEN 1 ELSE -1
         IN  IF AbsGtEps(crossProductZ)
             THEN IF sign = 0
                  THEN isConvex_loop(vertices, pointsToTest, i + 1, currentSign)
                  ELSE IF sign # currentSign THEN FALSE
                       ELSE isConvex_loop(vertices, pointsToTest, i + 1, sign)
             ELSE isConvex_loop(vertices, pointsToTest, i + 1, sign)

Polygon_isConvex(vertices) ==
    IF Len(vertices) < 3 THEN FALSE
    ELSE LET n == Len(vertices)
             pointsToTest == IF Polygon_isClosed(vertices) THEN n - 1 ELSE n
         IN  isConvex_loop(vertices, pointsToTest, 0, 0)

\* The for loop of contains: i runs over 0..n-1 with j the index before it
\* (n-1 first); `inside` is the parity so far.
RECURSIVE contains_loop(_, _, _, _, _)
contains_loop(vertices, point, i, j, inside) ==
    IF i >= Len(vertices) THEN inside
    ELSE LET vi == At(vertices, i)
             vj == At(vertices, j)
             intersect ==
                 /\ Gt(vi.y, point.y) # Gt(vj.y, point.y)
                 /\ Lt(point.x,
                       Add(Div(Mul(Sub(vj.x, vi.x), Sub(point.y, vi.y)), Sub(vj.y, vi.y)),
                           vi.x))
         IN  contains_loop(vertices, point, i + 1, i,
                           IF intersect THEN ~inside ELSE inside)

\* Mutant of Polygon_contains: the edge from the last vertex to the first is
\* left out.
Polygon_contains_noWrap(vertices, point) ==
    IF Len(vertices) < 3 THEN FALSE
    ELSE contains_loop(vertices, point, 1, 0, FALSE)

Polygon_contains(vertices, point) ==
    IF Len(vertices) < 3 THEN FALSE
    ELSE contains_loop(vertices, point, 0, Len(vertices) - 1, FALSE)

\* getEdges() as values: the Line from vertex i to vertex (i+1) % n for
\* i < limit.
Polygon_getEdges(vertices) ==
    IF Len(vertices) < 2 THEN <<>>
    ELSE LET n == Len(vertices)
             limit == IF Polygon_isClosed(vertices) /\ n > 1 THEN n - 1 ELSE n
         IN  [k \in 1..limit |-> Ln(At(vertices, k - 1), At(vertices, k % n))]

\* Mutant of Polygon_intersects: the two containment tests are missing.
Polygon_intersects_edgesOnly(vertices, polygon) ==
    IF Len(vertices) = 0 \/ Len(polygon) = 0 THEN FALSE
    ELSE LET edges1 == Polygon_getEdges(vertices)
             edges2 == Polygon_getEdges(polygon)
         IN  \E a \in DOMAIN edges1 : \E b \in DOMAIN edges2 :
                 Line_intersects(edges1[a], edges2[b]) # None

\* intersects(polygon): `vertices` is this.vertices, `polygon` the other
\* polygon's vertices.
Polygon_intersects(vertices, polygon) ==
    IF Len(vertices) = 0 \/ Len(polygon) = 0 THEN FALSE
    ELSE LET edges1 == Polygon_getEdges(vertices)
             edges2 == Polygon_getEdges(polygon)
         IN  IF \E a \in DOMAIN edges1 : \E b \in DOMAIN edges2 :
                    Line_intersects(edges1[a], edges2[b]) # None
             THEN TRUE
             ELSE IF Len(vertices) > 0 /\ Polygon_contains(polygon, At(vertices, 0))
                  THEN TRUE
                  ELSE IF Len(polygon) > 0 /\ Polygon_contains(vertices, At(polygon, 0))
                       THEN TRUE
                       ELSE FALSE

\* distance > tolerance, where the distance is Math.sqrt(distanceSq).
DistanceGt(distanceSq, tolerance) ==
    IF Lt(tolerance, Zero) THEN TRUE
    ELSE Gt(distanceSq, Mul(tolerance, tolerance))

\* Mutant of simplify_loop: the distance is taken to the segment between the
\* two original neighbours, not from the last vertex kept.
RECURSIVE simplify_loop_neighbours(_, _, _, _)
simplify_loop_neighbours(effectiveVertices, tolerance, i, simplified) ==
    IF i >= Len(effectiveVertices) - 1 THEN simplified
    ELSE LET prev == At(effectiveVertices, i - 1)
             curr == At(effectiveVertices, i)
             next == At(effectiveVertices, i + 1)
             distanceSq == Line_distanceToPointSq(Ln(prev, next), curr)
         IN  simplify_loop_neighbours(effectiveVertices, tolerance, i + 1,
                 IF DistanceGt(distanceSq, tolerance)
                 THEN Append(simplified, curr) ELSE simplified)

\* The for loop of simplify from index i, `simplified` being the vertices
\* kept so far.
RECURSIVE simplify_loop(_, _, _, _)
simplify_loop(effectiveVertices, tolerance, i, simplified) ==
    IF i >= Len(effectiveVertices) - 1 THEN simplified
    ELSE LET prev == simplified[Len(simplified)]
             curr == At(effectiveVertices, i)
             next == At(effectiveVertices, i + 1)
             distanceSq == Line_distanceToPointSq(Ln(prev, next), curr)
         IN  simplify_loop(effectiveVertices, tolerance, i + 1,
                 IF DistanceGt(distanceSq, tolerance)
                 THEN Append(simplified, curr) ELSE simplified)

\* simplify(tolerance): the polygon's vertex list after the call.
Polygon_simplify(vertices, tolerance) ==
    IF Len(vertices) <= 2 THEN vertices
    ELSE LET wasClosedDuplicate == Polygon_isClosed(vertices) /\ Len(vertices) > 1
             effectiveVertices ==
                 IF wasClosedDuplicate THEN SubSeq(vertices, 1, Len(vertices) - 1)
                 ELSE vertices
             looped == simplify_loop(effectiveVertices, tolerance, 1, <<vertices[1]>>)
             withLast ==
                 IF Len(effectiveVertices) > 1
                 THEN Append(looped, effectiveVertices[Len(effectiveVertices)])
                 ELSE looped
         IN  IF /\ wasClosedDuplicate
                /\ Len(withLast) > 1
                /\ ~Point_equals(withLast[1], withLast[Len(withLast)])
             THEN Append(withLast, withLast[1])
             ELSE withLast

\* The comparator handed to Array.sort in convexHull: negative when a sorts
\* before b (by x, then by y).
HullCompare(a, b) == IF a.x = b.x THEN Sub(a.y, b.y) ELSE Sub(a.x, b.x)

\* Array.sort(HullCompare), a stable sort: p is put after the elements that
\* do not sort after it.
RECURSIVE SortInsert(_, _)
SortInsert(sorted, p) ==
    IF sorted = <<>> THEN <<p>>
    ELSE IF Lt(HullCompare(p, Head(sorted)), Zero) THEN <<p>> \o sorted
    ELSE <<Head(sorted)>> \o SortInsert(Tail(sorted), p)

RECURSIVE SortPoints(_)
SortPoints(points) ==
    IF points = <<>> THEN <<>>
    ELSE SortInsert(SortPoints(SubSeq(points, 1, Len(points) - 1)), points[Len(points)])

\* The helper crossProduct(o, a, b) of convexHull.
crossProduct(o, a, b) ==
    Sub(Mul(Sub(a.x, o.x), Sub(b.y, o.y)), Mul(Sub(a.y, o.y), Sub(b.x, o.x)))

\* Mutant of hull_pop: only right turns are popped (< 0 for <= 0), so
\* collinear points stay on the hull.
RECURSIVE hull_pop_keepCollinear(_, _)
hull_pop_keepCollinear(hull, p) ==
    IF Len(hull) >= 2 /\ Lt(crossProduct(hull[Len(hull) - 1], hull[Len(hull)], p), Zero)
    THEN hull_pop_keepCollinear(SubSeq(hull, 1, Len(hull) - 1), p)
    ELSE hull

\* The while loop of convexHull: pops the hull's last point as long as it
\* does not make a left turn with p.
RECURSIVE hull_pop(_, _)
hull_pop(hull, p) ==
    IF Len(hull) >= 2 /\ Le(crossProduct(hull[Len(hull) - 1], hull[Len(hull)], p), Zero)
    THEN hull_pop(SubSeq(hull, 1, Len(hull) - 1), p)
    ELSE hull

\* One of the two for loops of convexHull over `order`, from position i.
RECURSIVE hull_chain(_, _, _)
hull_chain(order, i, hull) ==
    IF i > Len(order) THEN hull
    ELSE hull_chain(order, i + 1, Append(hull_pop(hull, order[i]), order[i]))

Reverse(s) == [k \in 1..Len(s) |-> s[Len(s) + 1 - k]]

\* static convexHull(points): `vertices` are the vertices of the polygon
\* returned, `points` is the caller's array after the call (the code sorts a
\* copy).
Polygon_convexHull(points) ==
    IF Len(points) < 3 THEN [vertices |-> points, points |-> points]
    ELSE LET sortedPoints == SortPoints(points)
             lowerHull == hull_chain(sortedPoints, 1, <<>>)
             upperHull == hull_chain(Reverse(sortedPoints), 1, <<>>)
         IN  [vertices |-> SubSeq(lowerHull, 1, Len(lowerHull) - 1)
                               \o SubSeq(upperHull, 1, Len(upperHull) - 1),
              points |-> points]

---------------------------------------------------------------------------
(* Geometry used to state the claims (not part of the program).            *)

\* Twice the signed area of the triangle a, b, c: > 0 for a left turn.
Orient(a, b, c) ==
    Sub(Mul(Sub(b.x, a.x), Sub(c.y, a.y)), Mul(Sub(b.y, a.y), Sub(c.x, a.x)))

SignF(a) == Sgn(a[1])

\* p lies on the closed segment a-b.
OnSegment(p, a, b) ==
    /\ Orient(a, b, p) = Zero
    /\ Le(MinF(a.x, b.x), p.x) /\ Le(p.x, MaxF(a.x, b.x))
    /\ Le(MinF(a.y, b.y), p.y) /\ Le(p.y, MaxF(a.y, b.y))

\* The directions of the two segments are linearly dependent (this covers
\* parallel, collinear and zero-length segments).
Parallel(l1, l2) ==
    Sub(Mul(Sub(l1.end.x, l1.start.x), Sub(l2.end.y, l2.start.y)),
        Mul(Sub(l1.end.y, l1.start.y), Sub(l2.end.x, l2.start.x))) = Zero

\* Each segment has its end points on both sides of (or on) the other's line.
Straddle(l1, l2) ==
    /\ SignF(Orient(l1.start, l1.end, l2.start)) * SignF(Orient(l1.start, l1.end, l2.end)) <= 0
    /\ SignF(Orient(l2.start, l2.end, l1.start)) * SignF(Orient(l2.start, l2.end, l1.end)) <= 0

---------------------------------------------------------------------------
(* SpecLineIntersects: Line.intersects on every pair of segments with end  *)
(* points on a grid.                                                       *)

LineCoordMax == 2

InitLineIntersects ==
    /\ pc = "call"
    /\ op = "none"
    /\ inp \in [a : [start : GridPoints(0, LineCoordMax), end : GridPoints(0, LineCoordMax)],
                b : [start : GridPoints(0, LineCoordMax), end : GridPoints(0, LineCoordMax)]]
    /\ out = None
    /\ NoHeap

CallLineIntersects ==
    /\ pc = "call"
    /\ pc' = "done"
    /\ op' = "intersects"
    /\ out' = Line_intersects(inp.a, inp.b)
    /\ PureFrame

NextLineIntersects == CallLineIntersects

SpecLineIntersects == InitLineIntersects /\ [][NextLineIntersects]_vars

\* C5: intersects returns a point exactly when the segments are not parallel
\* and meet (both parameters in [0,1]: end-point contact counts); the point
\* returned lies on both segments; parallel, collinear and zero-length pairs
\* give null.
C5_LineIntersects ==
    (pc = "done" /\ op = "intersects") =>
        /\ (out # None) <=> (~Parallel(inp.a, inp.b) /\ Straddle(inp.a, inp.b))
        /\ (out # None) =>
              /\ OnSegment(out, inp.a.start, inp.a.end)
              /\ OnSegment(out, inp.b.start, inp.b.end)

\* Two non-parallel segments that only touch: the end of one is the start of
\* the other, and that point is returned.
C5_Witness ==
    /\ pc = "done"
    /\ op = "intersects"
    /\ inp.a.end = inp.b.start
    /\ ~Parallel(inp.a, inp.b)
    /\ out = inp.a.end

---------------------------------------------------------------------------
(* SpecCircle3: Circle.fromThreePoints on every triple of grid points.     *)

CircleCoordMax == 4

InitCircle3 ==
    /\ pc = "call"
    /\ op = "none"
    /\ inp \in [p1 : GridPoints(0, CircleCoordMax), p2 : GridPoints(0, CircleCoordMax),
                p3 : GridPoints(0, CircleCoordMax)]
    /\ out = None
    /\ NoHeap

CallFromThreePoints ==
    /\ pc = "call"
    /\ pc' = "done"
    /\ op' = "fromThreePoints"
    /\ out' = Circle_fromThreePoints(inp.p1, inp.p2, inp.p3)
    /\ PureFrame

NextCircle3 == CallFromThreePoints

SpecCircle3 == InitCircle3 /\ [][NextCircle3]_vars

\* C6: fromThreePoints returns null exactly for collinear triples (coinciding
\* points included); otherwise the centre is finite and equidistant from the
\* three points and the radius is that distance.
C6_FromThreePoints ==
    (pc = "done" /\ op = "fromThreePoints") =>
        /\ (out = None) <=> (Orient(inp.p1, inp.p2, inp.p3) = Zero)
        /\ (out # None) =>
              /\ IsFinite(out.center.x) /\ IsFinite(out.center.y)
              /\ Point_distanceSq(out.center, inp.p1) = out.radiusSq
              /\ Point_distanceSq(out.center, inp.p2) = out.radiusSq
              /\ Point_distanceSq(out.center, inp.p3) = out.radiusSq

\* The spec's example: (0,0), (4,0), (0,4) gives the centre (2,2).
C6_Witness ==
    /\ pc = "done"
    /\ op = "fromThreePoints"
    /\ inp = [p1 |-> PtI(0, 0), p2 |-> PtI(4, 0), p3 |-> PtI(0, 4)]
    /\ out # None
    /\ out.center = PtI(2, 2)
    /\ out.radiusSq = Num(8)

---------------------------------------------------------------------------
(* SpecIsConvex: Polygon.isConvex on every vertex list over a grid, open   *)
(* and closed (first vertex repeated last) alike.                          *)

ConvexCoordMax == 2
ConvexMaxLen == 5

InitIsConvex ==
    /\ pc = "call"
    /\ op = "none"
    /\ inp \in [vertices : SeqsUpTo(GridPoints(0, ConvexCoordMax), ConvexMaxLen)]
    /\ out = None
    /\ NoHeap

CallIsConvex ==
    /\ pc = "call"
    /\ pc' = "done"
    /\ op' = "isConvex"
    /\ out' = Polygon_isConvex(inp.vertices)
    /\ PureFrame

NextIsConvex == CallIsConvex

SpecIsConvex == InitIsConvex /\ [][NextIsConvex]_vars

\* The polygon's corners: its vertices without the closing copy of the first.
Corners(vertices) ==
    IF Polygon_isClosed(vertices) THEN SubSeq(vertices, 1, Len(vertices) - 1)
    ELSE vertices

\* The turn at each corner, taken cyclically: entry k is the turn at the
\* corner after corner k.
Turns(vertices) ==
    LET c == Corners(vertices)
        m == Len(c)
    IN  [k \in 1..m |-> CrossProductZ(c[k], c[(k % m) + 1], c[((k + 1) % m) + 1])]

\* C8: isConvex is false below 3 vertices and otherwise false exactly when
\* two turns of the polygon, whichever corners they are at (the first one
\* included), have opposite signs.
C8_IsConvex ==
    (pc = "done" /\ op = "isConvex") =>
        (out <=> /\ Len(inp.vertices) >= 3
                 /\ ~\E i, j \in DOMAIN Turns(inp.vertices) :
                        /\ Gt(Turns(inp.vertices)[i], Zero)
                        /\ Lt(Turns(inp.vertices)[j], Zero))

---------------------------------------------------------------------------
(* SpecSimplify: Polygon.simplify on vertex lists over a grid of           *)
(* SimplifyCoordMax + 1 columns and two rows, for several tolerances.      *)

SimplifyCoordMax == 2
SimplifyMaxLen == 4
SimplifyPoints == {PtI(i, j) : i \in 0..SimplifyCoordMax, j \in 0..1}

SimplifyTolerances == {Zero, Frac(1, 2), One}

InitSimplify ==
    /\ pc = "call"
    /\ op = "none"
    /\ inp \in [vertices : SeqsUpTo(SimplifyPoints, SimplifyMaxLen),
                tolerance : SimplifyTolerances]
    /\ out = None
    /\ NoHeap

CallSimplify ==
    /\ pc = "call"
    /\ pc' = "done"
    /\ op' = "simplify"
    /\ out' = Polygon_simplify(inp.vertices, inp.tolerance)
    /\ PureFrame

NextSimplify == CallSimplify

SpecSimplify == InitSimplify /\ [][NextSimplify]_vars

\* The single pass over the vertices at 0-based positions from..to-1 of vs:
\* a vertex is kept exactly when it is farther than the tolerance from the
\* segment joining the last vertex kept to the next vertex of vs.
RECURSIVE SinglePass(_, _, _, _, _)
SinglePass(vs, tolerance, i, to, kept) ==
    IF i >= to THEN kept
    ELSE SinglePass(vs, tolerance, i + 1, to,
             IF DistanceGt(Line_distanceToPointSq(Ln(kept[Len(kept)], At(vs, i + 1)),
                                                  At(vs, i)), tolerance)
             THEN Append(kept, At(vs, i)) ELSE kept)

\* s is a subsequence of t.
RECURSIVE IsSubseq(_, _)
IsSubseq(s, t) ==
    IF s = <<>> THEN TRUE
    ELSE IF t = <<>> THEN FALSE
    ELSE IF Head(s) = Head(t) THEN IsSubseq(Tail(s), Tail(t))
    ELSE IsSubseq(s, Tail(t))

---------------------------------------------------------------------------
(* SpecConvexHull: Polygon.convexHull on every array of three or more      *)
(* points drawn, with repetition, from the corners of a square, its centre *)
(* and the midpoints of its sides.                                         *)

HullPointCount == 5
HullMaxLen == 5

HullCandidates ==
    <<PtI(0, 0), PtI(2, 0), PtI(2, 2), PtI(0, 2), PtI(1, 1),
      PtI(1, 0), PtI(2, 1), PtI(1, 2), PtI(0, 1)>>

HullPoints == {HullCandidates[k] : k \in 1..HullPointCount}

InitConvexHull ==
    /\ pc = "call"
    /\ op = "none"
    /\ inp \in [points : {s \in SeqsUpTo(HullPoints, HullMaxLen) : Len(s) >= 3}]
    /\ out = None
    /\ NoHeap

CallConvexHull ==
    /\ pc = "call"
    /\ pc' = "done"
    /\ op' = "convexHull"
    /\ out' = Polygon_convexHull(inp.points)
    /\ PureFrame

NextConvexHull == CallConvexHull

SpecConvexHull == InitConvexHull /\ [][NextConvexHull]_vars

\* The k-th vertex of hull h, cyclically (k >= 1).
Cyc(h, k) == h[((k - 1) % Len(h)) + 1]

AllCollinear(points) ==
    \A i, j, k \in DOMAIN points : Orient(points[i], points[j], points[k]) = Zero

\* What C7 says of the hull h of the array `points`: input points only, no
\* repetition, strict left turns all round, every input point inside or on
\* it, and no vertex lying between two other input points (which is the case
\* of a point inside the hull or inside a hull edge).
IsStrictHull(h, points) ==
    /\ Range(h) \subseteq Range(points)
    /\ \A i, j \in DOMAIN h : i # j => h[i] # h[j]
    /\ \A k \in DOMAIN h : Gt(Orient(Cyc(h, k), Cyc(h, k + 1), Cyc(h, k + 2)), Zero)
    /\ \A i \in DOMAIN points : \A k \in DOMAIN h :
           Ge(Orient(Cyc(h, k), Cyc(h, k + 1), points[i]), Zero)
    /\ \A k \in DOMAIN h :
           ~\E i, j \in DOMAIN points :
               /\ points[i] # h[k]
               /\ points[j] # h[k]
               /\ OnSegment(h[k], points[i], points[j])

\* The array with its first two elements exchanged, and rotated by one: the
\* two generate every reordering.
SwapFirst(points) == <<points[2], points[1]>> \o SubSeq(points, 3, Len(points))
RotateOne(points) == Append(Tail(points), Head(points))

\* h, the hull of `points`, is also the hull of the two reorderings.
OrderIndependent(h, points) ==
    /\ Polygon_convexHull(SwapFirst(points)).vertices = h
    /\ Polygon_convexHull(RotateOne(points)).vertices = h

\* C7 as stated, for every array of three or more points.
C7_HullAsStated ==
    (pc = "done" /\ op = "convexHull") =>
        /\ IsStrictHull(out.vertices, inp.points)
        /\ OrderIndependent(out.vertices, inp.points)
        /\ out.points = inp.points

\* p comes before q, or is q, in the order by x and then by y.
LexLe(p, q) == Lt(p.x, q.x) \/ (p.x = q.x /\ Le(p.y, q.y))

LexMin(points) == CHOOSE p \in Range(points) : \A q \in Range(points) : LexLe(p, q)
LexMax(points) == CHOOSE p \in Range(points) : \A q \in Range(points) : LexLe(q, p)

\* C7 amended: the same for every array of three or more points that are
\* not all on one line; for points all on one line the hull has the two
\* vertices smallest and largest in the order by x and then by y.
C7_ConvexHull ==
    (pc = "done" /\ op = "convexHull") =>
        /\ ~AllCollinear(inp.points) =>
              /\ IsStrictHull(out.vertices, inp.points)
              /\ OrderIndependent(out.vertices, inp.points)
        /\ AllCollinear(inp.points) =>
              out.vertices = <<LexMin(inp.points), LexMax(inp.points)>>
        /\ out.points = inp.points

\* A quadrilateral hull computed from an array not given in hull order.
C7_Witness ==
    /\ pc = "done"
    /\ op = "convexHull"
    /\ ~AllCollinear(inp.points)
    /\ Len(out.vertices) = 4
    /\ out.vertices # inp.points
    /\ out.vertices = <<PtI(0, 0), PtI(2, 0), PtI(2, 2), PtI(0, 2)>>

---------------------------------------------------------------------------
(* SpecPolyIntersects: Polygon.intersects on every pair of vertex lists    *)
(* with IntersectMaxVertices vertices at most between them, drawn with     *)
(* repetition from a triangle, a point inside it and points around it.     *)

IntersectPointCount == 5
IntersectMaxVertices == 4

IntersectCandidates ==
    <<PtI(0, 0), PtI(2, 0), PtI(1, 2), PtI(1, 1), PtI(3, 1),
      PtI(1, 0), PtI(0, 2), PtI(3, 3), PtI(2, 2)>>

IntersectPoints == {IntersectCandidates[k] : k \in 1..IntersectPointCount}

InitPolyIntersects ==
    /\ pc = "call"
    /\ op = "none"
    /\ inp \in {io \in [this : SeqsUpTo(IntersectPoints, IntersectMaxVertices),
                        polygon : SeqsUpTo(IntersectPoints, IntersectMaxVertices)] :
                   Len(io.this) + Len(io.polygon) <= IntersectMaxVertices}
    /\ out = None
    /\ NoHeap

CallPolyIntersects ==
    /\ pc = "call"
    /\ pc' = "done"
    /\ op' = "polygonIntersects"
    /\ out' = Polygon_intersects(inp.this, inp.polygon)
    /\ PureFrame

NextPolyIntersects == CallPolyIntersects

SpecPolyIntersects == InitPolyIntersects /\ [][NextPolyIntersects]_vars

\* Some edge of p intersects (Line.intersects) some edge of q.
SomeEdgesIntersect(p, q) ==
    \E a \in DOMAIN Polygon_getEdges(p) : \E b \in DOMAIN Polygon_getEdges(q) :
        Line_intersects(Polygon_getEdges(p)[a], Polygon_getEdges(q)[b]) # None

\* p contains (Polygon.contains) some vertex of q.
ContainsSomeVertex(p, q) == \E k \in DOMAIN q : Polygon_contains(p, q[k])

---------------------------------------------------------------------------
(* Objects.  `heap` is the store of Point objects: heap[a] is the value of *)
(* the Point at address a, and `new Point` / clone() append to it.  A Line *)
(* object is [start, end] and a Circle [center, radius] with addresses for *)
(* the Points they reference; `poly` is this.vertices, a sequence of       *)
(* addresses.  The caller reaches Points through its own `new Point` and   *)
(* through what the methods return; it does not read the fields vertices,  *)
(* start, end or center.                                                   *)

\* new Point(...) / clone(): the store with one more object; its address is
\* Len(h) + 1.
Alloc(h, value) == Append(h, value)

\* Math.cos and Math.sin at k quarter turns (k * PI / 2), taken as exact.
CosQ(k) == Num(<<1, 0, -1, 0>>[(k % 4) + 1])
SinQ(k) == Num(<<0, 1, 0, -1>>[(k % 4) + 1])

\* rotate(angle) for angle = k * PI / 2.
Point_rotate(this, k) ==
    Pt(Sub(Mul(this.x, CosQ(k)), Mul(this.y, SinQ(k))),
       Add(Mul(this.x, SinQ(k)), Mul(this.y, CosQ(k))))

\* The value an `origin` argument has in store h: address 0 stands for the
\* default, a fresh Point.zero.
OriginValue(h, origin) == IF origin = 0 THEN Point_zero ELSE h[origin]

\* p.subtract(origin).multiply(factor).add(origin) on the Point at address a:
\* three in-place steps, each reading the store as the step before left it.
ScaleAbout(h, a, factor, origin) ==
    LET h1 == [h EXCEPT ![a] = Point_subtract(h[a], OriginValue(h, origin))]
        h2 == [h1 EXCEPT ![a] = Point_multiply(h1[a], factor)]
    IN  [h2 EXCEPT ![a] = Point_add(h2[a], OriginValue(h2, origin))]

\* p.subtract(origin).rotate(angle).add(origin) on the Point at address a.
RotateAbout(h, a, k, origin) ==
    LET h1 == [h EXCEPT ![a] = Point_subtract(h[a], OriginValue(h, origin))]
        h2 == [h1 EXCEPT ![a] = Point_rotate(h1[a], k)]
    IN  [h2 EXCEPT ![a] = Point_add(h2[a], OriginValue(h2, origin))]

\* Line.translate(dx, dy): start.add(..) and then end.add(..), in place.
Line_translate(h, line, dx, dy) ==
    LET h1 == [h EXCEPT ![line.start] = Point_add(h[line.start], Pt(dx, dy))]
    IN  [h1 EXCEPT ![line.end] = Point_add(h1[line.end], Pt(dx, dy))]

\* Line.scale(factor, origin).
Line_scale(h, line, factor, origin) ==
    ScaleAbout(ScaleAbout(h, line.start, factor, origin), line.end, factor, origin)

\* Line.rotate(angle, origin) for angle = k * PI / 2.
Line_rotate(h, line, k, origin) ==
    RotateAbout(RotateAbout(h, line.start, k, origin), line.end, k, origin)

\* Circle.translate(dx, dy): center.add(..), in place.
Circle_translate(h, circle, dx, dy) ==
    [h EXCEPT ![circle.center] = Point_add(h[circle.center], Pt(dx, dy))]

\* new Line(start, end): the fields are the argument objects themselves.
Line_new(start, end) == [start |-> start, end |-> end]

\* new Circle(center, radius): the field is the argument object itself.
Circle_new(center, radius) == [center |-> center, radius |-> radius]

\* What a caller may do to a Point it holds: add, subtract, multiply, rotate,
\* or write x or y.
PointMutations == {"add", "subtract", "multiply", "rotate", "setX", "setY"}

MutatePointValue(p, m) ==
    CASE m = "add" -> Point_add(p, PtI(1, 1))
      [] m = "subtract" -> Point_subtract(p, PtI(1, 0))
      [] m = "multiply" -> Point_multiply(p, Num(2))
      [] m = "rotate" -> Point_rotate(p, 1)
      [] m = "setX" -> Pt(Add(p.x, One), p.y)
      [] m = "setY" -> Pt(p.x, Sub(p.y, One))

\* The values of a sequence of addresses.
Values(h, addrs) == [k \in DOMAIN addrs |-> h[addrs[k]]]

---------------------------------------------------------------------------
(* SpecPolygonOwnership: a caller that makes Points, builds one Polygon    *)
(* from them, reads it back through getVertex, getEdges and clone, and     *)
(* mutates whatever it holds.  held.own are the Points the caller made,    *)
(* held.passed those it has handed to the polygon, held.returned the       *)
(* Points of returned values, held.lines the Lines getEdges returned.      *)

OwnMaxObjects == 3
OwnMaxVertices == 2
OwnMaxMutations == 1
OwnCoordMax == 2

OwnNewPoints == {PtI(0, 0), PtI(1, 1)}

InBox(h) ==
    \A a \in DOMAIN h :
        /\ Le(AbsF(h[a].x), Num(OwnCoordMax))
        /\ Le(AbsF(h[a].y), Num(OwnCoordMax))

Addrs(addrs) == {addrs[k] : k \in DOMAIN addrs}

\* Mutant of Point_clone: the object itself is handed back.
Point_clone_sameObject(h, a) == [heap |-> h, ref |-> a]

\* clone() on the Point at address a: the store with the new object, and the
\* new object's address.
Point_clone(h, a) == [heap |-> Alloc(h, h[a]), ref |-> Len(h) + 1]

\* vertices.map((v) => v.clone()): the store after the clones are made; the
\* k-th clone is at address Len(h) + k.
CloneAll(h, addrs) == h \o Values(h, addrs)

ClonedAddrs(h, addrs) == [k \in DOMAIN addrs |-> Len(h) + k]

\* getEdges(): each Line is built on the vertex objects themselves.
Polygon_getEdges_refs(h, vertices) ==
    IF Len(vertices) < 2 THEN <<>>
    ELSE LET n == Len(vertices)
             limit == IF Polygon_isClosed(Values(h, vertices)) /\ n > 1 THEN n - 1 ELSE n
         IN  [k \in 1..limit |-> Line_new(At(vertices, k - 1), At(vertices, k % n))]

\* splice(index, 0, item) for 0 <= index <= length.
Splice(s, index, item) ==
    SubSeq(s, 1, index) \o <<item>> \o SubSeq(s, index + 1, Len(s))

Call(name, target) == [name |-> name, target |-> target]

InitPolygonOwnership ==
    /\ pc = "new"
    /\ op = Call("init", 0)
    /\ inp = None
    /\ out = None
    /\ heap = <<>>
    /\ poly = <<>>
    /\ held = [own |-> {}, passed |-> {}, returned |-> {}, lines |-> {}, circles |-> {}, muts |-> 0]

\* new Point(x, y) by the caller.
NewPoint ==
    /\ Len(heap) < OwnMaxObjects
    /\ \E p \in OwnNewPoints :
        /\ heap' = Alloc(heap, p)
        /\ held' = [held EXCEPT !.own = @ \cup {Len(heap) + 1}]
        /\ op' = Call("newPoint", Len(heap) + 1)
    /\ UNCHANGED <<pc, inp, out, poly>>

\* new Polygon(vertices) on an array of the caller's Points.
PolygonCtor ==
    /\ pc = "new"
    /\ \E args \in SeqsUpTo(held.own, OwnMaxVertices) :
        /\ Len(heap) + Len(args) <= OwnMaxObjects
        /\ heap' = CloneAll(heap, args)
        /\ poly' = ClonedAddrs(heap, args)
        /\ held' = [held EXCEPT !.passed = @ \cup Addrs(args)]
    /\ pc' = "run"
    /\ op' = Call("constructor", 0)
    /\ UNCHANGED <<inp, out>>

\* addVertex(point)
AddVertex ==
    /\ pc = "run"
    /\ Len(poly) < OwnMaxVertices
    /\ Len(heap) < OwnMaxObjects
    /\ \E point \in held.own \cup held.returned :
        /\ heap' = Point_clone(heap, point).heap
        /\ poly' = Append(poly, Point_clone(heap, point).ref)
        /\ held' = [held EXCEPT !.passed = @ \cup {point}]
        /\ op' = Call("addVertex", point)
    /\ UNCHANGED <<pc, inp, out>>

\* insertVertex(index, point)
InsertVertex ==
    /\ pc = "run"
    /\ Len(poly) < OwnMaxVertices
    /\ Len(heap) < OwnMaxObjects
    /\ \E point \in held.own \cup held.returned, index \in 0..Len(poly) :
        /\ heap' = Point_clone(heap, point).heap
        /\ poly' = Splice(poly, index, Point_clone(heap, point).ref)
        /\ held' = [held EXCEPT !.passed = @ \cup {point}]
        /\ op' = Call("insertVertex", point)
    /\ UNCHANGED <<pc, inp, out>>

\* setVertex(index, point); an index out of range changes nothing.
SetVertex ==
    /\ pc = "run"
    /\ Len(heap) < OwnMaxObjects
    /\ \E point \in held.own \cup held.returned, index \in 0..Len(poly) :
        /\ IF index >= 0 /\ index < Len(poly)
           THEN /\ heap' = Point_clone(heap, point).heap
                /\ poly' = [poly EXCEPT ![index + 1] = Point_clone(heap, point).ref]
           ELSE UNCHANGED <<heap, poly>>
        /\ held' = [held EXCEPT !.passed = @ \cup {point}]
        /\ op' = Call("setVertex", point)
    /\ UNCHANGED <<pc, inp, out>>

\* getVertex(index): a clone, or null when the index is out of range.
GetVertex ==
    /\ pc = "run"
    /\ Len(heap) < OwnMaxObjects
    /\ \E index \in 0..Len(poly) :
        IF index < 0 \/ index >= Len(poly)
        THEN /\ out' = None
             /\ UNCHANGED <<heap, held>>
        ELSE /\ heap' = Point_clone(heap, At(poly, index)).heap
             /\ out' = Point_clone(heap, At(poly, index)).ref
             /\ held' = [held EXCEPT !.returned = @ \cup {Point_clone(heap, At(poly, index)).ref}]
    /\ op' = Call("getVertex", 0)
    /\ UNCHANGED <<pc, inp, poly>>

\* getEdges()
GetEdges ==
    /\ pc = "run"
    /\ LET edges == Polygon_getEdges_refs(heap, poly)
       IN  /\ out' = edges
           /\ held' = [held EXCEPT !.lines = @ \cup Range(edges)]
    /\ op' = Call("getEdges", 0)
    /\ UNCHANGED <<pc, inp, heap, poly>>

\* clone(): new Polygon(this.vertices); the caller holds the new polygon's
\* vertices.
PolygonClone ==
    /\ pc = "run"
    /\ Len(poly) > 0
    /\ Len(heap) + Len(poly) <= OwnMaxObjects
    /\ heap' = CloneAll(heap, poly)
    /\ out' = ClonedAddrs(heap, poly)
    /\ held' = [held EXCEPT !.returned = @ \cup Addrs(ClonedAddrs(heap, poly))]
    /\ op' = Call("clone", 0)
    /\ UNCHANGED <<pc, inp, poly>>

\* The caller mutates a Point it holds.
MutatePoint ==
    /\ held.muts < OwnMaxMutations
    /\ \E a \in held.own \cup held.returned, m \in PointMutations :
        /\ heap' = [heap EXCEPT ![a] = MutatePointValue(heap[a], m)]
        /\ op' = Call("mutatePoint", a)
    /\ InBox(heap')
    /\ held' = [held EXCEPT !.muts = @ + 1]
    /\ UNCHANGED <<pc, inp, out, poly>>

\* The caller translates, scales or rotates a Line it holds.
TranslateLine ==
    /\ held.muts < OwnMaxMutations
    /\ \E line \in held.lines :
        heap' = Line_translate(heap, line, One, Zero)
    /\ InBox(heap')
    /\ op' = Call("translateLine", 0)
    /\ held' = [held EXCEPT !.muts = @ + 1]
    /\ UNCHANGED <<pc, inp, out, poly>>

ScaleLine ==
    /\ held.muts < OwnMaxMutations
    /\ \E line \in held.lines :
        heap' = Line_scale(heap, line, Num(2), 0)
    /\ InBox(heap')
    /\ op' = Call("scaleLine", 0)
    /\ held' = [held EXCEPT !.muts = @ + 1]
    /\ UNCHANGED <<pc, inp, out, poly>>

RotateLine ==
    /\ held.muts < OwnMaxMutations
    /\ \E line \in held.lines :
        heap' = Line_rotate(heap, line, 1, 0)
    /\ InBox(heap')
    /\ op' = Call("rotateLine", 0)
    /\ held' = [held EXCEPT !.muts = @ + 1]
    /\ UNCHANGED <<pc, inp, out, poly>>

NextPolygonOwnership ==
    \/ NewPoint
    \/ PolygonCtor
    \/ AddVertex
    \/ InsertVertex
    \/ SetVertex
    \/ GetVertex
    \/ GetEdges
    \/ PolygonClone
    \/ MutatePoint
    \/ TranslateLine
    \/ ScaleLine
    \/ RotateLine

SpecPolygonOwnership == InitPolygonOwnership /\ [][NextPolygonOwnership]_vars

\* The values of the polygon's vertices.
VertexValues == Values(heap, poly)

\* C1: once the constructor, addVertex, insertVertex or setVertex has
\* returned, a mutation of a Point that was passed to one of them (add,
\* subtract, multiply, rotate, a write to x or y) changes no vertex of the
\* polygon.
C1_InputsAreCopied ==
    [][(op'.name = "mutatePoint" /\ op'.target \in held.passed)
        => VertexValues' = VertexValues]_vars

\* C1 witness: a Point that was passed to the polygon has been mutated, the
\* polygon has vertices, and none of them has the Point's new value.
C1_Witness ==
    /\ op.name = "mutatePoint"
    /\ op.target \in held.passed
    /\ Len(poly) > 0
    /\ \A k \in DOMAIN poly : heap[poly[k]] # heap[op.target]

\* C2, as claimed: mutating a value a Polygon method returned (a Point from
\* getVertex or clone, or a Line from getEdges by translate, scale or rotate)
\* leaves the polygon's vertices unchanged.
C2_ReturnedValuesAreCopies ==
    [][(\/ op'.name \in {"translateLine", "scaleLine", "rotateLine"}
        \/ (op'.name = "mutatePoint" /\ op'.target \in held.returned))
        => VertexValues' = VertexValues]_vars

---------------------------------------------------------------------------
(* SpecShapeOwnership: a caller that makes Points, constructs Lines and    *)
(* Circles from them, transforms the shapes and mutates its Points.        *)

InitShapeOwnership ==
    /\ pc = "run"
    /\ op = Call("init", 0)
    /\ inp = None
    /\ out = None
    /\ heap = <<>>
    /\ poly = <<>>
    /\ held = [own |-> {}, passed |-> {}, returned |-> {}, lines |-> {}, circles |-> {}, muts |-> 0]

\* The Points, Lines and Circles made so far.
ObjectCount == Len(heap) + Cardinality(held.lines) + Cardinality(held.circles)

\* new Line(start, end) on two of the caller's Points.
NewLine ==
    /\ ObjectCount < OwnMaxObjects
    /\ \E start \in held.own, end \in held.own :
        held' = [held EXCEPT !.lines = @ \cup {Line_new(start, end)},
                             !.passed = @ \cup {start, end}]
    /\ op' = Call("newLine", 0)
    /\ UNCHANGED <<pc, inp, out, heap, poly>>

\* new Circle(center, radius) on one of the caller's Points.
NewCircle ==
    /\ ObjectCount < OwnMaxObjects
    /\ \E center \in held.own :
        held' = [held EXCEPT !.circles = @ \cup {Circle_new(center, One)},
                             !.passed = @ \cup {center}]
    /\ op' = Call("newCircle", 0)
    /\ UNCHANGED <<pc, inp, out, heap, poly>>

\* circle.translate(dx, dy)
TranslateCircle ==
    /\ held.muts < OwnMaxMutations
    /\ \E circle \in held.circles :
        heap' = Circle_translate(heap, circle, One, Zero)
    /\ InBox(heap')
    /\ op' = Call("translateCircle", 0)
    /\ held' = [held EXCEPT !.muts = @ + 1]
    /\ UNCHANGED <<pc, inp, out, poly>>

NextShapeOwnership ==
    \/ NewPoint
    \/ NewLine
    \/ NewCircle
    \/ MutatePoint
    \/ TranslateLine
    \/ ScaleLine
    \/ RotateLine
    \/ TranslateCircle

SpecShapeOwnership == InitShapeOwnership /\ [][NextShapeOwnership]_vars

\* The start and end of every Line and the center of every Circle.
ShapeValues ==
    [lines |-> [l \in held.lines |-> <<heap[l.start], heap[l.end]>>],
     circles |-> [c \in held.circles |-> heap[c.center]]]

\* The Points the caller made.
OwnValues == [a \in held.own |-> heap[a]]

\* C3, as claimed: translate, scale or rotate on a Line or Circle leaves the
\* Points it was constructed from unchanged, and a mutation of one of those
\* Points leaves the shape's center, start and end unchanged.
C3_ShapesDoNotAlias ==
    [][/\ (op'.name \in {"translateLine", "scaleLine", "rotateLine", "translateCircle"})
            => OwnValues' = OwnValues
       /\ (op'.name = "mutatePoint") => ShapeValues' = ShapeValues]_vars

---------------------------------------------------------------------------
(* Rectangle: [x, y, width, height], numbers as fractions.                 *)

Rect(x, y, width, height) == [x |-> x, y |-> y, width |-> width, height |-> height]

Rectangle_right(this) == Add(this.x, this.width)

Rectangle_bottom(this) == Add(this.y, this.height)

\* normalize(): the receiver after the call.
Rectangle_normalize(this) ==
    LET r1 == IF Lt(this.width, Zero)
              THEN [this EXCEPT !.x = Add(this.x, this.width), !.width = Neg(this.width)]
              ELSE this
    IN  IF Lt(r1.height, Zero)
        THEN [r1 EXCEPT !.y = Add(r1.y, r1.height), !.height = Neg(r1.height)]
        ELSE r1

\* contains(arg) for a Point.
Rectangle_containsPoint(this, arg) ==
    /\ Ge(arg.x, this.x)
    /\ Le(arg.x, Rectangle_right(this))
    /\ Ge(arg.y, this.y)
    /\ Le(arg.y, Rectangle_bottom(this))

\* contains(arg) for a Rectangle.
Rectangle_containsRect(this, arg) ==
    /\ Ge(arg.x, this.x)
    /\ Le(Rectangle_right(arg), Rectangle_right(this))
    /\ Ge(arg.y, this.y)
    /\ Le(Rectangle_bottom(arg), Rectangle_bottom(this))

\* Mutant of Rectangle_intersects: touching rectangles count as separated.
Rectangle_intersects_open(this, rect) ==
    ~(\/ Ge(rect.x, Rectangle_right(this))
      \/ Le(Rectangle_right(rect), this.x)
      \/ Ge(rect.y, Rectangle_bottom(this))
      \/ Le(Rectangle_bottom(rect), this.y))

Rectangle_intersects(this, rect) ==
    ~(\/ Gt(rect.x, Rectangle_right(this))
      \/ Lt(Rectangle_right(rect), this.x)
      \/ Gt(rect.y, Rectangle_bottom(this))
      \/ Lt(Rectangle_bottom(rect), this.y))

\* Mutant of Rectangle_intersection: the intersects test is missing.
Rectangle_intersection_noGuard(this, rect) ==
    LET x == MaxF(this.x, rect.x)
        y == MaxF(this.y, rect.y)
        right == MinF(Rectangle_right(this), Rectangle_right(rect))
        bottom == MinF(Rectangle_bottom(this), Rectangle_bottom(rect))
    IN  Rect(x, y, Sub(right, x), Sub(bottom, y))

\* intersection(rect), and the static intersection(rect1, rect2), whose body
\* is the same with rect1 for this: null or the new Rectangle.
Rectangle_intersection(this, rect) ==
    IF ~Rectangle_intersects(this, rect) THEN None
    ELSE LET x == MaxF(this.x, rect.x)
             y == MaxF(this.y, rect.y)
             right == MinF(Rectangle_right(this), Rectangle_right(rect))
             bottom == MinF(Rectangle_bottom(this), Rectangle_bottom(rect))
         IN  Rect(x, y, Sub(right, x), Sub(bottom, y))

Rectangle_intersection_static(rect1, rect2) ==
    IF ~Rectangle_intersects(rect1, rect2) THEN None
    ELSE LET x == MaxF(rect1.x, rect2.x)
             y == MaxF(rect1.y, rect2.y)
             right == MinF(Rectangle_right(rect1), Rectangle_right(rect2))
             bottom == MinF(Rectangle_bottom(rect1), Rectangle_bottom(rect2))
         IN  Rect(x, y, Sub(right, x), Sub(bottom, y))

\* Mutant of Rectangle_fromPoints: the corner is p1 whatever the order.
Rectangle_fromPoints_p1Corner(p1, p2) ==
    Rect(p1.x, p1.y, AbsF(Sub(p2.x, p1.x)), AbsF(Sub(p2.y, p1.y)))

Rectangle_fromPoints(p1, p2) ==
    Rect(MinF(p1.x, p2.x), MinF(p1.y, p2.y),
         AbsF(Sub(p2.x, p1.x)), AbsF(Sub(p2.y, p1.y)))

\* clone() and equals(rect) with the default tolerance.
Rectangle_clone(this) == Rect(this.x, this.y, this.width, this.height)

Rectangle_equals(this, rect) ==
    /\ AbsLtEps(Sub(this.x, rect.x))
    /\ AbsLtEps(Sub(this.y, rect.y))
    /\ AbsLtEps(Sub(this.width, rect.width))
    /\ AbsLtEps(Sub(this.height, rect.height))

---------------------------------------------------------------------------
(* SpecRectPair: intersects and the two forms of intersection on every     *)
(* pair of normalized rectangles over a grid.  out keeps the result and    *)
(* the two rectangles as the call left them.                               *)

RectCoordMax == 2
RectSizeMax == 2

RectGrid ==
    {Rect(Num(x), Num(y), Num(w), Num(h)) :
        x \in 0..RectCoordMax, y \in 0..RectCoordMax,
        w \in 0..RectSizeMax, h \in 0..RectSizeMax}

InitRectPair ==
    /\ pc = "call"
    /\ op = "none"
    /\ inp \in [this : RectGrid, rect : RectGrid]
    /\ out = None
    /\ NoHeap

CallRectIntersects ==
    /\ pc = "call"
    /\ pc' = "done"
    /\ op' = "rectIntersects"
    /\ out' = [ret |-> Rectangle_intersects(inp.this, inp.rect),
               swapped |-> Rectangle_intersects(inp.rect, inp.this),
               this |-> inp.this, rect |-> inp.rect]
    /\ PureFrame

CallRectIntersection ==
    /\ pc = "call"
    /\ pc' = "done"
    /\ op' = "rectIntersection"
    /\ out' = [ret |-> Rectangle_intersection(inp.this, inp.rect),
               this |-> inp.this, rect |-> inp.rect]
    /\ PureFrame

CallRectIntersectionStatic ==
    /\ pc = "call"
    /\ pc' = "done"
    /\ op' = "rectIntersectionStatic"
    /\ out' = [ret |-> Rectangle_intersection_static(inp.this, inp.rect),
               this |-> inp.this, rect |-> inp.rect]
    /\ PureFrame

NextRectPair ==
    \/ CallRectIntersects
    \/ CallRectIntersection
    \/ CallRectIntersectionStatic

SpecRectPair == InitRectPair /\ [][NextRectPair]_vars

\* A rectangle of non-negative width and height.
Normalized(r) == Ge(r.width, Zero) /\ Ge(r.height, Zero)

\* The intervals [a1, a2] and [b1, b2] are strictly apart.
Apart(a1, a2, b1, b2) == Lt(a2, b1) \/ Lt(b2, a1)

SeparatedX(a, b) == Apart(a.x, Add(a.x, a.width), b.x, Add(b.x, b.width))
SeparatedY(a, b) == Apart(a.y, Add(a.y, a.height), b.y, Add(b.y, b.height))

\* C11: for normalized rectangles intersects is false exactly when the two
\* are strictly separated along x or along y (touching ones intersect), and
\* it gives the same answer with the rectangles exchanged.
C11_RectIntersects ==
    (pc = "done" /\ op = "rectIntersects" /\ Normalized(inp.this) /\ Normalized(inp.rect)) =>
        /\ ~out.ret <=> (SeparatedX(inp.this, inp.rect) \/ SeparatedY(inp.this, inp.rect))
        /\ out.ret = out.swapped

\* C11 witness: two rectangles of positive size that touch in one corner
\* only, and intersect.
C11_Witness ==
    /\ pc = "done"
    /\ op = "rectIntersects"
    /\ Gt(inp.this.width, Zero) /\ Gt(inp.this.height, Zero)
    /\ Gt(inp.rect.width, Zero) /\ Gt(inp.rect.height, Zero)
    /\ inp.rect.x = Add(inp.this.x, inp.this.width)
    /\ inp.rect.y = Add(inp.this.y, inp.this.height)
    /\ out.ret

\* The point (px, py) lies in rectangle r, borders included.
InRect(px, py, r) ==
    /\ Le(r.x, px) /\ Le(px, Add(r.x, r.width))
    /\ Le(r.y, py) /\ Le(py, Add(r.y, r.height))

\* The points to test: all corners of the grid's rectangles.
RectTestCoords == {Num(c) : c \in 0..(RectCoordMax + RectSizeMax)}

\* C12: for normalized rectangles both forms of intersection return null
\* exactly when intersects is false; otherwise a rectangle of non-negative
\* width and height that lies in both, holds every point that lies in both,
\* and the two rectangles are as they were.
C12_RectIntersection ==
    (pc = "done" /\ op \in {"rectIntersection", "rectIntersectionStatic"}
        /\ Normalized(inp.this) /\ Normalized(inp.rect)) =>
        /\ (out.ret = None) <=> ~Rectangle_intersects(inp.this, inp.rect)
        /\ (out.ret # None) =>
              /\ Normalized(out.ret)
              /\ \A px \in RectTestCoords, py \in RectTestCoords :
                    InRect(px, py, out.ret) <=>
                        (InRect(px, py, inp.this) /\ InRect(px, py, inp.rect))
              /\ InRect(out.ret.x, out.ret.y, inp.this)
              /\ InRect(out.ret.x, out.ret.y, inp.rect)
              /\ InRect(Add(out.ret.x, out.ret.width), Add(out.ret.y, out.ret.height), inp.this)
              /\ InRect(Add(out.ret.x, out.ret.width), Add(out.ret.y, out.ret.height), inp.rect)
        /\ out.this = inp.this
        /\ out.rect = inp.rect

\* C12 witness: two overlapping rectangles neither of which holds the other,
\* with an overlap of positive size.
C12_Witness ==
    /\ pc = "done"
    /\ op = "rectIntersection"
    /\ out.ret # None
    /\ out.ret # inp.this
    /\ out.ret # inp.rect
    /\ Gt(out.ret.width, Zero) /\ Gt(out.ret.height, Zero)

---------------------------------------------------------------------------
(* The static constructors of Polygon.  Math.cos and Math.sin at the       *)
(* angles i * 2 * PI / n are taken rounded to thousandths.                 *)

\* <<cos, sin>> of i * 2 * PI / n in thousandths, for i = 0..n-1.
TrigTable ==
    [n \in 3..8 |->
        CASE n = 3 -> <<<<1000, 0>>, <<-500, 866>>, <<-500, -866>>>>
          [] n = 4 -> <<<<1000, 0>>, <<0, 1000>>, <<-1000, 0>>, <<0, -1000>>>>
          [] n = 5 -> <<<<1000, 0>>, <<309, 951>>, <<-809, 588>>, <<-809, -588>>,
                        <<309, -951>>>>
          [] n = 6 -> <<<<1000, 0>>, <<500, 866>>, <<-500, 866>>, <<-1000, 0>>,
                        <<-500, -866>>, <<500, -866>>>>
          [] n = 7 -> <<<<1000, 0>>, <<623, 782>>, <<-223, 975>>, <<-901, 434>>,
                        <<-901, -434>>, <<-223, -975>>, <<623, -782>>>>
          [] n = 8 -> <<<<1000, 0>>, <<707, 707>>, <<0, 1000>>, <<-707, 707>>,
                        <<-1000, 0>>, <<-707, -707>>, <<0, -1000>>, <<707, -707>>>>]

CosStep(i, n) == Frac(TrigTable[n][i + 1][1], 1000)
SinStep(i, n) == Frac(TrigTable[n][i + 1][2], 1000)

\* The number of passes of `for (let i = 0; i < count; i++)` for a finite or
\* NaN count: none when 0 < count is false.
LoopPasses(count) ==
    IF ~Lt(Zero, count) THEN 0
    ELSE (count[1] + count[2] - 1) \div count[2]

\* Circle.pointAt(angle) at angle = i * 2 * PI / n.
Circle_pointAt(center, radius, i, n) ==
    Pt(Add(center.x, Mul(CosStep(i, n), radius)),
       Add(center.y, Mul(SinStep(i, n), radius)))

Threw == [threw |-> TRUE]

Returned(vertices) == [threw |-> FALSE, vertices |-> vertices]

\* Polygon.regular(center, radius, sides)
Polygon_regular(center, radius, sides) ==
    IF Lt(sides, Num(3)) THEN Threw
    ELSE LET n == LoopPasses(sides)
         IN  Returned(Polygon_close(
                 [k \in 1..n |-> Pt(Add(center.x, Mul(radius, CosStep(k - 1, n))),
                                    Add(center.y, Mul(radius, SinStep(k - 1, n))))]))

\* Polygon.fromCircle(circle, segments)
Polygon_fromCircle(center, radius, segments) ==
    IF Lt(segments, Num(3)) THEN Threw
    ELSE LET n == LoopPasses(segments)
         IN  Returned(Polygon_close(
                 [k \in 1..n |-> Circle_pointAt(center, radius, k - 1, n)]))

\* Polygon.rectangle(x, y, width, height)
Polygon_rectangle(x, y, width, height) ==
    Polygon_close(<<Pt(x, y), Pt(Add(x, width), y),
                    Pt(Add(x, width), Add(y, height)), Pt(x, Add(y, height))>>)

\* Polygon.fromRectangle(rect)
Polygon_fromRectangle(rect) == Polygon_rectangle(rect.x, rect.y, rect.width, rect.height)

\* Polygon.triangle(p1, p2, p3)
Polygon_triangle(p1, p2, p3) == Polygon_close(<<p1, p2, p3>>)

---------------------------------------------------------------------------
(* SpecFactories: the static constructors on a grid of centers and         *)
(* corners, radii and sizes from 0, and side counts from 0 up, NaN         *)
(* included.                                                               *)

FactoryMaxSides == 5
FactorySizeMax == 2

FactoryPoints == GridPoints(0, 1)

FactorySizes == {Num(k) : k \in 0..FactorySizeMax}

FactoryCounts == {NaN} \cup {Num(k) : k \in 0..FactoryMaxSides}

InitFactories ==
    /\ pc = "call"
    /\ op = "none"
    /\ inp \in [center : FactoryPoints, size : FactorySizes, size2 : FactorySizes,
                count : FactoryCounts]
    /\ out = None
    /\ NoHeap

CallRegular ==
    /\ pc = "call"
    /\ pc' = "done"
    /\ op' = "regular"
    /\ out' = Polygon_regular(inp.center, inp.size, inp.count)
    /\ PureFrame

CallFromCircle ==
    /\ pc = "call"
    /\ pc' = "done"
    /\ op' = "fromCircle"
    /\ out' = Polygon_fromCircle(inp.center, inp.size, inp.count)
    /\ PureFrame

CallRectangle ==
    /\ pc = "call"
    /\ pc' = "done"
    /\ op' = "rectangle"
    /\ out' = Returned(Polygon_rectangle(inp.center.x, inp.center.y, inp.size, inp.size2))
    /\ PureFrame

CallFromRectangle ==
    /\ pc = "call"
    /\ pc' = "done"
    /\ op' = "fromRectangle"
    /\ out' = Returned(Polygon_fromRectangle(
                  Rect(inp.center.x, inp.center.y, inp.size, inp.size2)))
    /\ PureFrame

CallTriangle ==
    /\ pc = "call"
    /\ pc' = "done"
    /\ op' = "triangle"
    /\ out' = Returned(Polygon_triangle(inp.center, Pt(inp.size, inp.size2),
                                        Pt(inp.size2, inp.size)))
    /\ PureFrame

NextFactories ==
    \/ CallRegular
    \/ CallFromCircle
    \/ CallRectangle
    \/ CallFromRectangle
    \/ CallTriangle

SpecFactories == InitFactories /\ [][NextFactories]_vars

\* C13, as claimed: regular and fromCircle raise an error when the count is
\* below 3, and every polygon they return has at least 3 vertices.
C13_AtLeastThreeVertices ==
    (pc = "done" /\ op \in {"regular", "fromCircle"}) =>
        /\ Lt(inp.count, Num(3)) => out.threw
        /\ ~out.threw => Len(out.vertices) >= 3

\* C13 for counts that are numbers other than NaN: the same.
C13_ExceptNaN ==
    (pc = "done" /\ op \in {"regular", "fromCircle"} /\ ~IsNaN(inp.count)) =>
        /\ Lt(inp.count, Num(3)) => out.threw
        /\ ~out.threw => Len(out.vertices) >= 3

---------------------------------------------------------------------------
(* clone() and equals() of the six shapes, on objects.  A shape is         *)
(* [kind, refs, radius]: refs are the addresses of the objects that hold   *)
(* its coordinates (the Point or Vector itself, the Rectangle itself, a    *)
(* Circle's center, a Line's start and end, a Polygon's vertices), radius  *)
(* is the Circle's own field.                                              *)

Shape(kind, refs, radius) == [kind |-> kind, refs |-> refs, radius |-> radius]

\* Vector.clone(): new Vector(this.x, this.y).
Vector_clone(h, a) == [heap |-> Alloc(h, h[a]), ref |-> Len(h) + 1]

\* Rectangle.clone() on the Rectangle at address a.
Rectangle_clone_at(h, a) == [heap |-> Alloc(h, Rectangle_clone(h[a])), ref |-> Len(h) + 1]

\* Mutant of Circle_clone: the center object is shared.
Circle_clone_sharedCenter(h, circle) == [heap |-> h, shape |-> circle]

\* Circle.clone(): new Circle(this.center.clone(), this.radius).
Circle_clone(h, circle) ==
    LET c == Point_clone(h, circle.refs[1])
    IN  [heap |-> c.heap, shape |-> Shape("circle", <<c.ref>>, circle.radius)]

\* Line.clone(): new Line(this.start.clone(), this.end.clone()).
Line_clone(h, line) ==
    LET s == Point_clone(h, line.refs[1])
        e == Point_clone(s.heap, line.refs[2])
    IN  [heap |-> e.heap, shape |-> Shape("line", <<s.ref, e.ref>>, Zero)]

\* Polygon.clone(): new Polygon(this.vertices).
Polygon_clone(h, polygon) ==
    [heap |-> CloneAll(h, polygon.refs),
     shape |-> Shape("polygon", ClonedAddrs(h, polygon.refs), Zero)]

Shape_clone(h, s) ==
    CASE s.kind = "point" ->
           [heap |-> Point_clone(h, s.refs[1]).heap,
            shape |-> Shape("point", <<Point_clone(h, s.refs[1]).ref>>, Zero)]
      [] s.kind = "vector" ->
           [heap |-> Vector_clone(h, s.refs[1]).heap,
            shape |-> Shape("vector", <<Vector_clone(h, s.refs[1]).ref>>, Zero)]
      [] s.kind = "rectangle" ->
           [heap |-> Rectangle_clone_at(h, s.refs[1]).heap,
            shape |-> Shape("rectangle", <<Rectangle_clone_at(h, s.refs[1]).ref>>, Zero)]
      [] s.kind = "circle" -> Circle_clone(h, s)
      [] s.kind = "line" -> Line_clone(h, s)
      [] s.kind = "polygon" -> Polygon_clone(h, s)

\* Circle.equals, Line.equals, Polygon.equals with the default tolerance.
Circle_equals(center1, radius1, center2, radius2) ==
    /\ Point_equals(center1, center2)
    /\ AbsLtEps(Sub(radius1, radius2))

Line_equals(this, line) ==
    /\ Point_equals(this.start, line.start)
    /\ Point_equals(this.end, line.end)

Polygon_equals(vertices, polygon) ==
    /\ Len(vertices) = Len(polygon)
    /\ \A i \in DOMAIN vertices : Point_equals(vertices[i], polygon[i])

\* s.equals(t) for two shapes of one kind.
Shape_equals(h, s, t) ==
    CASE s.kind \in {"point", "vector"} -> Point_equals(h[s.refs[1]], h[t.refs[1]])
      [] s.kind = "rectangle" -> Rectangle_equals(h[s.refs[1]], h[t.refs[1]])
      [] s.kind = "circle" ->
           Circle_equals(h[s.refs[1]], s.radius, h[t.refs[1]], t.radius)
      [] s.kind = "line" ->
           Line_equals(Ln(h[s.refs[1]], h[s.refs[2]]), Ln(h[t.refs[1]], h[t.refs[2]]))
      [] s.kind = "polygon" -> Polygon_equals(Values(h, s.refs), Values(h, t.refs))

\* Polygon.translate(dx, dy): add on each vertex in turn.
RECURSIVE Polygon_translate(_, _, _, _, _)
Polygon_translate(h, vertices, i, dx, dy) ==
    IF i > Len(vertices) THEN h
    ELSE Polygon_translate([h EXCEPT ![vertices[i]] = Point_add(h[vertices[i]], Pt(dx, dy))],
                           vertices, i + 1, dx, dy)

\* Rectangle.translate(dx, dy) and scale(scaleX, scaleY).
Rectangle_translate(this, dx, dy) ==
    [this EXCEPT !.x = Add(this.x, dx), !.y = Add(this.y, dy)]

Rectangle_scale(this, scaleX, scaleY) ==
    [this EXCEPT !.width = Mul(this.width, scaleX), !.height = Mul(this.height, scaleY)]

\* The mutating operations applied to each kind of shape.
ShapeMutations(kind) ==
    CASE kind \in {"point", "vector"} -> {"add", "multiply"}
      [] kind = "rectangle" -> {"translate", "scale"}
      [] kind = "circle" -> {"translate", "scale"}
      [] kind = "line" -> {"translate", "scale", "rotate"}
      [] kind = "polygon" -> {"translate", "reverse"}

\* The store and the shape after mutation m of shape s.
Shape_mutate(h, s, m) ==
    CASE s.kind \in {"point", "vector"} /\ m = "add" ->
           [heap |-> [h EXCEPT ![s.refs[1]] = Point_add(@, PtI(1, 1))], shape |-> s]
      [] s.kind \in {"point", "vector"} /\ m = "multiply" ->
           [heap |-> [h EXCEPT ![s.refs[1]] = Point_multiply(@, Num(2))], shape |-> s]
      [] s.kind = "rectangle" /\ m = "translate" ->
           [heap |-> [h EXCEPT ![s.refs[1]] = Rectangle_translate(@, One, One)], shape |-> s]
      [] s.kind = "rectangle" /\ m = "scale" ->
           [heap |-> [h EXCEPT ![s.refs[1]] = Rectangle_scale(@, Num(2), Num(2))], shape |-> s]
      [] s.kind = "circle" /\ m = "translate" ->
           [heap |-> Circle_translate(h, [center |-> s.refs[1]], One, One), shape |-> s]
      [] s.kind = "circle" /\ m = "scale" ->
           [heap |-> h, shape |-> [s EXCEPT !.radius = Mul(@, Num(2))]]
      [] s.kind = "line" /\ m = "translate" ->
           [heap |-> Line_translate(h, Line_new(s.refs[1], s.refs[2]), One, One), shape |-> s]
      [] s.kind = "line" /\ m = "scale" ->
           [heap |-> Line_scale(h, Line_new(s.refs[1], s.refs[2]), Num(2), 0), shape |-> s]
      [] s.kind = "line" /\ m = "rotate" ->
           [heap |-> Line_rotate(h, Line_new(s.refs[1], s.refs[2]), 1, 0), shape |-> s]
      [] s.kind = "polygon" /\ m = "translate" ->
           [heap |-> Polygon_translate(h, s.refs, 1, One, One), shape |-> s]
      [] s.kind = "polygon" /\ m = "reverse" ->
           [heap |-> h, shape |-> [s EXCEPT !.refs = Reverse(@)]]

---------------------------------------------------------------------------
(* SpecClone: one shape of each kind over a grid, cloned, after which the  *)
(* original and the clone are mutated in any order.  out is what           *)
(* clone().equals(original) gave.                                          *)

CloneCoordMax == 1
CloneMaxLen == 3
CloneMaxMutations == 2

ClonePoints == GridPoints(0, CloneCoordMax)

CloneSizes == {Num(k) : k \in 0..CloneCoordMax}

\* The shapes to clone, each with the store that holds it.
CloneShapes ==
    {[heap |-> <<p>>, shape |-> Shape(kind, <<1>>, Zero)] :
        p \in ClonePoints, kind \in {"point", "vector"}}
    \cup {[heap |-> <<Rect(p.x, p.y, w, h)>>, shape |-> Shape("rectangle", <<1>>, Zero)] :
        p \in ClonePoints, w \in CloneSizes, h \in CloneSizes}
    \cup {[heap |-> <<p>>, shape |-> Shape("circle", <<1>>, r)] :
        p \in ClonePoints, r \in CloneSizes}
    \cup {[heap |-> <<p, q>>, shape |-> Shape("line", <<1, 2>>, Zero)] :
        p \in ClonePoints, q \in ClonePoints}
    \cup {[heap |-> <<p>>, shape |-> Shape("line", <<1, 1>>, Zero)] : p \in ClonePoints}
    \cup {[heap |-> vs, shape |-> Shape("polygon", [k \in DOMAIN vs |-> k], Zero)] :
        vs \in SeqsUpTo(ClonePoints, CloneMaxLen)}

InitClone ==
    /\ pc = "made"
    /\ op = Call("init", 0)
    /\ inp = None
    /\ out = None
    /\ poly = <<>>
    /\ \E c \in CloneShapes :
        /\ heap = c.heap
        /\ held = [orig |-> c.shape, copy |-> c.shape, muts |-> 0]

\* copy = orig.clone(); out = copy.equals(orig)
CloneShape ==
    /\ pc = "made"
    /\ pc' = "cloned"
    /\ LET c == Shape_clone(heap, held.orig)
       IN  /\ heap' = c.heap
           /\ held' = [held EXCEPT !.copy = c.shape]
           /\ out' = Shape_equals(c.heap, c.shape, held.orig)
    /\ op' = Call("clone", 0)
    /\ UNCHANGED <<inp, poly>>

\* A mutating operation on the original.
MutateOriginal ==
    /\ pc = "cloned"
    /\ held.muts < CloneMaxMutations
    /\ \E m \in ShapeMutations(held.orig.kind) :
        LET r == Shape_mutate(heap, held.orig, m)
        IN  /\ heap' = r.heap
            /\ held' = [held EXCEPT !.orig = r.shape, !.muts = @ + 1]
    /\ op' = Call("mutateOriginal", 0)
    /\ UNCHANGED <<pc, inp, out, poly>>

\* A mutating operation on the clone.
MutateClone ==
    /\ pc = "cloned"
    /\ held.muts < CloneMaxMutations
    /\ \E m \in ShapeMutations(held.copy.kind) :
        LET r == Shape_mutate(heap, held.copy, m)
        IN  /\ heap' = r.heap
            /\ held' = [held EXCEPT !.copy = r.shape, !.muts = @ + 1]
    /\ op' = Call("mutateClone", 0)
    /\ UNCHANGED <<pc, inp, out, poly>>

NextClone ==
    \/ CloneShape
    \/ MutateOriginal
    \/ MutateClone

SpecClone == InitClone /\ [][NextClone]_vars

\* What a shape is worth: its coordinates and radius.
ShapeValue(h, s) == [kind |-> s.kind, values |-> Values(h, s.refs), radius |-> s.radius]

\* C14: clone().equals(original) is true for every shape, and afterwards a
\* mutating operation on the clone leaves the original as it was, and one
\* on the original leaves the clone as it was.
C14_CloneIsEqualAndIndependent ==
    /\ [](pc = "cloned" => out = TRUE)
    /\ [][/\ op'.name = "mutateClone" =>
                ShapeValue(heap', held'.orig) = ShapeValue(heap, held.orig)
          /\ op'.name = "mutateOriginal" =>
                ShapeValue(heap', held'.copy) = ShapeValue(heap, held.copy)]_vars

\* C14 witness: a polygon of three vertices and its clone, no longer equal
\* after a mutation of the clone.
C14_Witness ==
    /\ pc = "cloned"
    /\ op.name = "mutateClone"
    /\ held.orig.kind = "polygon"
    /\ Len(held.orig.refs) = 3
    /\ ~Shape_equals(heap, held.copy, held.orig)

---------------------------------------------------------------------------
(* Polygon.area, reverse, translate and close on vertex lists.             *)

\* Mutant of area_loop: the last vertex is not joined to the first.
RECURSIVE area_loop_noWrap(_, _, _)
area_loop_noWrap(vertices, i, area) ==
    IF i >= Len(vertices) - 1 THEN area
    ELSE LET j == i + 1
             a1 == Add(area, Mul(At(vertices, i).x, At(vertices, j).y))
             a2 == Sub(a1, Mul(At(vertices, j).x, At(vertices, i).y))
         IN  area_loop_noWrap(vertices, i + 1, a2)

\* The for loop of area(): `area` after the passes from i on.
RECURSIVE area_loop(_, _, _)
area_loop(vertices, i, area) ==
    IF i >= Len(vertices) THEN area
    ELSE LET j == (i + 1) % Len(vertices)
             a1 == Add(area, Mul(At(vertices, i).x, At(vertices, j).y))
             a2 == Sub(a1, Mul(At(vertices, j).x, At(vertices, i).y))
         IN  area_loop(vertices, i + 1, a2)

Polygon_area(vertices) ==
    IF Len(vertices) < 3 THEN Zero
    ELSE Div(AbsF(area_loop(vertices, 0, Zero)), Num(2))

\* reverse(): this.vertices.reverse().
Polygon_reverse(vertices) == Reverse(vertices)

\* translate(dx, dy) on a vertex list whose vertices are distinct objects.
Polygon_translated(vertices, dx, dy) ==
    Polygon_translate(vertices, [k \in DOMAIN vertices |-> k], 1, dx, dy)

---------------------------------------------------------------------------
(* SpecArea: area() before and after reverse, translate and close, on      *)
(* every vertex list over a grid.                                          *)

AreaCoordMax == 1
AreaMaxLen == 4

AreaDeltas == {PtI(1, 0), PtI(-2, 3)}

InitArea ==
    /\ pc = "call"
    /\ op = "none"
    /\ inp \in [vertices : SeqsUpTo(GridPoints(0, AreaCoordMax), AreaMaxLen)]
    /\ out = None
    /\ NoHeap

\* Each action: area(), then the operation, then area() again.
CallArea ==
    /\ out' = [before |-> Polygon_area(inp.vertices),
               vertices |-> inp.vertices,
               after |-> Polygon_area(inp.vertices)]
    /\ pc = "call"
    /\ pc' = "done"
    /\ op' = "area"
    /\ PureFrame

CallReverse ==
    /\ out' = [before |-> Polygon_area(inp.vertices),
               vertices |-> Polygon_reverse(inp.vertices),
               after |-> Polygon_area(Polygon_reverse(inp.vertices))]
    /\ pc = "call"
    /\ pc' = "done"
    /\ op' = "reverse"
    /\ PureFrame

CallTranslate ==
    /\ \E d \in AreaDeltas :
        out' = [before |-> Polygon_area(inp.vertices),
                vertices |-> Polygon_translated(inp.vertices, d.x, d.y),
                after |-> Polygon_area(Polygon_translated(inp.vertices, d.x, d.y))]
    /\ pc = "call"
    /\ pc' = "done"
    /\ op' = "translate"
    /\ PureFrame

CallClose ==
    /\ out' = [before |-> Polygon_area(inp.vertices),
               vertices |-> Polygon_close(inp.vertices),
               after |-> Polygon_area(Polygon_close(inp.vertices))]
    /\ pc = "call"
    /\ pc' = "done"
    /\ op' = "close"
    /\ PureFrame

NextArea ==
    \/ CallArea
    \/ CallReverse
    \/ CallTranslate
    \/ CallClose

SpecArea == InitArea /\ [][NextArea]_vars

\* The shoelace sum: x[k] * y[k+1] - x[k+1] * y[k] over k = 1..n, with
\* vertex n + 1 the first.
RECURSIVE Shoelace(_, _)
Shoelace(vs, k) ==
    IF k = 0 THEN Zero
    ELSE LET p == vs[k]
             q == vs[(k % Len(vs)) + 1]
         IN  Add(Shoelace(vs, k - 1), Sub(Mul(p.x, q.y), Mul(q.x, p.y)))

\* C15: area() is 0 below 3 vertices and otherwise half the absolute value
\* of the shoelace sum; it is not negative, and reverse(), translate() and
\* close() leave it as it was.
C15_Area ==
    (pc = "done" /\ op \in {"area", "reverse", "translate", "close"}) =>
        /\ Len(inp.vertices) < 3 => out.before = Zero
        /\ Len(inp.vertices) >= 3 =>
              Mul(out.before, Num(2)) = AbsF(Shoelace(inp.vertices, Len(inp.vertices)))
        /\ Ge(out.before, Zero)
        /\ out.after = out.before

\* C15 witness: an open polygon of positive area, closed by close(), with
\* the area it had.
C15_Witness ==
    /\ pc = "done"
    /\ op = "close"
    /\ Len(out.vertices) = Len(inp.vertices) + 1
    /\ Gt(out.before, Zero)
    /\ out.after = out.before

---------------------------------------------------------------------------
(* SpecContains: Polygon.contains on vertex lists over the first           *)
(* ContainsPointCount candidate points and every test point of a grid; the *)
(* same question is put to the reversed and to the closed polygon.         *)

ContainsPointCount == 5
ContainsMaxLen == 4
ContainsGridMax == 2

ContainsCandidates ==
    <<PtI(1, 0), PtI(2, 1), PtI(1, 2), PtI(0, 1), PtI(1, 1),
      PtI(0, 0), PtI(2, 2), PtI(2, 0), PtI(0, 2)>>

ContainsVertices ==
    {ContainsCandidates[k] : k \in 1..ContainsPointCount}

InitContains ==
    /\ pc = "call"
    /\ op = "none"
    /\ inp \in [vertices : SeqsUpTo(ContainsVertices, ContainsMaxLen),
                point : GridPoints(0, ContainsGridMax)]
    /\ out = None
    /\ NoHeap

CallContains ==
    /\ pc = "call"
    /\ pc' = "done"
    /\ op' = "contains"
    /\ out' = [ret |-> Polygon_contains(inp.vertices, inp.point),
               reversed |-> Polygon_contains(Polygon_reverse(inp.vertices), inp.point),
               closed |-> Polygon_contains(Polygon_close(inp.vertices), inp.point)]
    /\ PureFrame

NextContains == CallContains

SpecContains == InitContains /\ [][NextContains]_vars

\* The closed segments a-b and c-d (a # b, c # d) have a point in common.
SegmentsMeet(a, b, c, d) ==
    IF Orient(a, b, c) = Zero /\ Orient(a, b, d) = Zero
    THEN OnSegment(c, a, b) \/ OnSegment(d, a, b) \/ OnSegment(a, c, d) \/ OnSegment(b, c, d)
    ELSE Straddle(Ln(a, b), Ln(c, d))

\* The corners c, joined cyclically, form a simple polygon: three or more
\* distinct corners, neighbouring edges share their common corner only, and
\* other edges share nothing.
IsSimple(c) ==
    LET m == Len(c)
        v(k) == c[((k - 1) % m) + 1]
    IN  /\ m >= 3
        /\ \A i, j \in 1..m : i # j => c[i] # c[j]
        /\ \A i \in 1..m :
              /\ ~OnSegment(v(i + 2), v(i), v(i + 1))
              /\ ~OnSegment(v(i), v(i + 1), v(i + 2))
        /\ \A i, j \in 1..m :
              (i < j /\ j # i + 1 /\ ~(i = 1 /\ j = m)) =>
                  ~SegmentsMeet(v(i), v(i + 1), v(j), v(j + 1))

\* p lies on an edge of the polygon with corners c.
OnBoundary(c, p) ==
    \E k \in 1..Len(c) : OnSegment(p, c[k], c[(k % Len(c)) + 1])

\* The number of times the polygon with corners c winds round p: edges that
\* pass p's height going up with p on their left count +1, going down with
\* p on their right -1.
RECURSIVE Winding(_, _, _)
Winding(c, p, k) ==
    IF k = 0 THEN 0
    ELSE LET a == c[k]
             b == c[(k % Len(c)) + 1]
             turn == SignF(Orient(a, b, p))
         IN  Winding(c, p, k - 1)
             + (IF Le(a.y, p.y) /\ Lt(p.y, b.y) /\ turn > 0 THEN 1
                ELSE IF Le(b.y, p.y) /\ Lt(p.y, a.y) /\ turn < 0 THEN -1
                ELSE 0)

\* C16: contains is false below 3 vertices; for a simple polygon it is true
\* for a point strictly inside and false for one strictly outside, and the
\* answer is the same for the reversed polygon and for the closed one.
C16_Contains ==
    (pc = "done" /\ op = "contains") =>
        LET c == Corners(inp.vertices)
        IN  /\ Len(inp.vertices) < 3 => ~out.ret
            /\ (Len(inp.vertices) >= 3 /\ IsSimple(c) /\ ~OnBoundary(c, inp.point)) =>
                  /\ out.ret <=> (Winding(c, inp.point, Len(c)) # 0)
                  /\ out.reversed = out.ret
                  /\ out.closed = out.ret

\* C16 witness: a simple quadrilateral, a point strictly inside it at the
\* height of one of its corners, found inside.
C16_Witness ==
    /\ pc = "done"
    /\ op = "contains"
    /\ Len(inp.vertices) = 4
    /\ IsSimple(Corners(inp.vertices))
    /\ ~OnBoundary(Corners(inp.vertices), inp.point)
    /\ \E k \in 1..4 : inp.vertices[k].y = inp.point.y /\ Gt(inp.vertices[k].x, inp.point.x)
    /\ out.ret

---------------------------------------------------------------------------
(* SpecClose: isClosed() and close(), once and twice, on every vertex list *)
(* over a grid.                                                            *)

CloseCoordMax == 1
CloseMaxLen == 4

InitClose ==
    /\ pc = "call"
    /\ op = "none"
    /\ inp \in [vertices : SeqsUpTo(GridPoints(0, CloseCoordMax), CloseMaxLen)]
    /\ out = None
    /\ NoHeap

CallIsClosed ==
    /\ pc = "call"
    /\ pc' = "done"
    /\ op' = "isClosed"
    /\ out' = [ret |-> Polygon_isClosed(inp.vertices)]
    /\ PureFrame

\* close(), isClosed(), close() again.
CallCloseTwice ==
    /\ pc = "call"
    /\ pc' = "done"
    /\ op' = "close"
    /\ out' = [once |-> Polygon_close(inp.vertices),
               closed |-> Polygon_isClosed(Polygon_close(inp.vertices)),
               twice |-> Polygon_close(Polygon_close(inp.vertices))]
    /\ PureFrame

NextClose ==
    \/ CallIsClosed
    \/ CallCloseTwice

SpecClose == InitClose /\ [][NextClose]_vars

\* C17 on vertex lists: isClosed() is true exactly for more than 2 vertices
\* with the first equal to the last; after close() a polygon of 3 or more
\* vertices is closed, a second close() adds nothing, and below 3 vertices
\* close() changes nothing.
C17_CloseOnLists ==
    /\ (pc = "done" /\ op = "isClosed") =>
          (out.ret <=> /\ Len(inp.vertices) > 2
                       /\ inp.vertices[1] = inp.vertices[Len(inp.vertices)])
    /\ (pc = "done" /\ op = "close") =>
          /\ Len(inp.vertices) >= 3 => out.closed
          /\ out.twice = out.once
          /\ Len(inp.vertices) < 3 => out.once = inp.vertices

\* C17, as claimed, on what the static constructors return: regular,
\* rectangle, fromRectangle, triangle and fromCircle all return polygons for
\* which isClosed() is true and to which close() adds no vertex.
C17_ConstructorsReturnClosed ==
    (pc = "done" /\ op \in {"regular", "rectangle", "fromRectangle", "triangle", "fromCircle"}
        /\ ~out.threw) =>
        /\ Polygon_isClosed(out.vertices)
        /\ Polygon_close(out.vertices) = out.vertices

\* C17 on the static constructors, for counts other than NaN.
C17_ExceptNaN ==
    (pc = "done" /\ op \in {"regular", "rectangle", "fromRectangle", "triangle", "fromCircle"}
        /\ ~out.threw /\ ~IsNaN(inp.count)) =>
        /\ Polygon_isClosed(out.vertices)
        /\ Polygon_close(out.vertices) = out.vertices

---------------------------------------------------------------------------
(* The static forms of the Point operations: each returns a new Point.     *)

Point_add_static(p1, p2) == Pt(Add(p1.x, p2.x), Add(p1.y, p2.y))

\* Mutant of Point_subtract_static: the operands are exchanged.
Point_subtract_static_swapped(p1, p2) == Pt(Sub(p2.x, p1.x), Sub(p2.y, p1.y))

Point_subtract_static(p1, p2) == Pt(Sub(p1.x, p2.x), Sub(p1.y, p2.y))

Point_multiply_static(point, scalar) == Pt(Mul(point.x, scalar), Mul(point.y, scalar))

\* static rotate(point, angle) for angle = k * PI / 2.
Point_rotate_static(point, k) ==
    Pt(Sub(Mul(point.x, CosQ(k)), Mul(point.y, SinQ(k))),
       Add(Mul(point.x, SinQ(k)), Mul(point.y, CosQ(k))))

---------------------------------------------------------------------------
(* SpecPointOps: a receiver Point at address 1 and an argument Point at    *)
(* address 2, a scalar and an angle of inp.turns quarter turns; one call   *)
(* of an instance or a static form.  out.ref is the object returned.       *)

PointOpCoordMax == 1
PointOpScalarMax == 2

PointOpScalars == {Num(k) : k \in -1..PointOpScalarMax} \cup {Frac(1, 2)}

InitPointOps ==
    /\ pc = "call"
    /\ op = Call("init", 0)
    /\ inp \in [p : GridPoints(-1, PointOpCoordMax), q : GridPoints(0, PointOpCoordMax),
                scalar : PointOpScalars, turns : 0..3]
    /\ out = None
    /\ heap = <<inp.p, inp.q>>
    /\ poly = <<>>
    /\ held = None

InstanceAdd ==
    /\ pc = "call"
    /\ pc' = "done"
    /\ op' = Call("add", 0)
    /\ heap' = [heap EXCEPT ![1] = Point_add(heap[1], heap[2])]
    /\ out' = [threw |-> FALSE, ref |-> 1]
    /\ UNCHANGED <<inp, poly, held>>

InstanceSubtract ==
    /\ pc = "call"
    /\ pc' = "done"
    /\ op' = Call("subtract", 0)
    /\ heap' = [heap EXCEPT ![1] = Point_subtract(heap[1], heap[2])]
    /\ out' = [threw |-> FALSE, ref |-> 1]
    /\ UNCHANGED <<inp, poly, held>>

InstanceMultiply ==
    /\ pc = "call"
    /\ pc' = "done"
    /\ op' = Call("multiply", 0)
    /\ heap' = [heap EXCEPT ![1] = Point_multiply(heap[1], inp.scalar)]
    /\ out' = [threw |-> FALSE, ref |-> 1]
    /\ UNCHANGED <<inp, poly, held>>

InstanceDivide ==
    /\ pc = "call"
    /\ pc' = "done"
    /\ op' = Call("divide", 0)
    /\ LET r == Point_divide(heap[1], inp.scalar)
       IN  /\ heap' = [heap EXCEPT ![1] = r.this]
           /\ out' = IF r.threw THEN Threw ELSE [threw |-> FALSE, ref |-> 1]
    /\ UNCHANGED <<inp, poly, held>>

InstanceRotate ==
    /\ pc = "call"
    /\ pc' = "done"
    /\ op' = Call("rotate", 0)
    /\ heap' = [heap EXCEPT ![1] = Point_rotate(heap[1], inp.turns)]
    /\ out' = [threw |-> FALSE, ref |-> 1]
    /\ UNCHANGED <<inp, poly, held>>

StaticAdd ==
    /\ pc = "call"
    /\ pc' = "done"
    /\ op' = Call("staticAdd", 0)
    /\ heap' = Alloc(heap, Point_add_static(heap[1], heap[2]))
    /\ out' = [threw |-> FALSE, ref |-> Len(heap) + 1]
    /\ UNCHANGED <<inp, poly, held>>

StaticSubtract ==
    /\ pc = "call"
    /\ pc' = "done"
    /\ op' = Call("staticSubtract", 0)
    /\ heap' = Alloc(heap, Point_subtract_static(heap[1], heap[2]))
    /\ out' = [threw |-> FALSE, ref |-> Len(heap) + 1]
    /\ UNCHANGED <<inp, poly, held>>

StaticMultiply ==
    /\ pc = "call"
    /\ pc' = "done"
    /\ op' = Call("staticMultiply", 0)
    /\ heap' = Alloc(heap, Point_multiply_static(heap[1], inp.scalar))
    /\ out' = [threw |-> FALSE, ref |-> Len(heap) + 1]
    /\ UNCHANGED <<inp, poly, held>>

StaticDivide ==
    /\ pc = "call"
    /\ pc' = "done"
    /\ op' = Call("staticDivide", 0)
    /\ LET r == Point_divide_static(heap[1], inp.scalar)
       IN  IF r.threw
           THEN /\ out' = Threw
                /\ UNCHANGED heap
           ELSE /\ heap' = Alloc(heap, r.ret)
                /\ out' = [threw |-> FALSE, ref |-> Len(heap) + 1]
    /\ UNCHANGED <<inp, poly, held>>

StaticRotate ==
    /\ pc = "call"
    /\ pc' = "done"
    /\ op' = Call("staticRotate", 0)
    /\ heap' = Alloc(heap, Point_rotate_static(heap[1], inp.turns))
    /\ out' = [threw |-> FALSE, ref |-> Len(heap) + 1]
    /\ UNCHANGED <<inp, poly, held>>

NextPointOps ==
    \/ InstanceAdd
    \/ InstanceSubtract
    \/ InstanceMultiply
    \/ InstanceDivide
    \/ InstanceRotate
    \/ StaticAdd
    \/ StaticSubtract
    \/ StaticMultiply
    \/ StaticDivide
    \/ StaticRotate

SpecPointOps == InitPointOps /\ [][NextPointOps]_vars

\* What each operation makes of point p with argument q, scalar s and k
\* quarter turns; k quarter turns take (x, y) to (x, y), (-y, x), (-x, -y),
\* (y, -x).
Expected(name, p, q, s, k) ==
    CASE name \in {"add", "staticAdd"} -> Pt(Add(p.x, q.x), Add(p.y, q.y))
      [] name \in {"subtract", "staticSubtract"} -> Pt(Sub(p.x, q.x), Sub(p.y, q.y))
      [] name \in {"multiply", "staticMultiply"} -> Pt(Mul(p.x, s), Mul(p.y, s))
      [] name \in {"divide", "staticDivide"} -> Pt(Div(p.x, s), Div(p.y, s))
      [] name \in {"rotate", "staticRotate"} ->
           <<p, Pt(Neg(p.y), p.x), Pt(Neg(p.x), Neg(p.y)), Pt(p.y, Neg(p.x))>>[k + 1]

InstanceOps == {"add", "subtract", "multiply", "divide", "rotate"}

StaticOps == {"staticAdd", "staticSubtract", "staticMultiply", "staticDivide", "staticRotate"}

\* C18: an instance form changes the receiver to the result, returns the
\* receiver itself and leaves its argument as it was; a static form leaves
\* both inputs as they were and returns a new Point with the coordinates the
\* instance form gives the receiver.  divide by 0 raises an error in both
\* forms and changes nothing.
C18_InstanceAndStatic ==
    (pc = "done") =>
        LET e == Expected(op.name, inp.p, inp.q, inp.scalar, inp.turns)
            byZero == op.name \in {"divide", "staticDivide"} /\ inp.scalar = Zero
        IN  /\ heap[2] = inp.q
            /\ out.threw <=> byZero
            /\ byZero => heap = <<inp.p, inp.q>>
            /\ (op.name \in InstanceOps /\ ~byZero) =>
                  /\ out.ref = 1
                  /\ Len(heap) = 2
                  /\ heap[1] = e
            /\ (op.name \in StaticOps /\ ~byZero) =>
                  /\ heap[1] = inp.p
                  /\ out.ref = 3
                  /\ Len(heap) = 3
                  /\ heap[3] = e

\* C18 witness: a static subtract whose result differs from both inputs and
\* from the result with the operands exchanged.
C18_Witness ==
    /\ pc = "done"
    /\ op.name = "staticSubtract"
    /\ heap[3] # inp.p
    /\ heap[3] # inp.q
    /\ heap[3] # Pt(Sub(inp.q.x, inp.p.x), Sub(inp.q.y, inp.p.y))
    /\ heap[1] = inp.p

---------------------------------------------------------------------------
(* Vector.project.  An object carries the class that constructed it:        *)
(* `new Vector` makes a Vector, the inherited static multiply makes a Point *)
(* (`as Vector` is a compile-time cast and changes nothing at run time).    *)

New(class, x, y) == [class |-> class, x |-> x, y |-> y]

Vector_dot(v1, v2) == Add(Mul(v1.x, v2.x), Mul(v1.y, v2.y))

\* Vector.multiply is Point.multiply (static), inherited: `new Point(..)`.
Vector_multiply_static(point, scalar) ==
    New("Point", Mul(point.x, scalar), Mul(point.y, scalar))

Vector_project(this, onto) ==
    LET dot == Vector_dot(this, onto)
        lengthSq == Add(Mul(onto.x, onto.x), Mul(onto.y, onto.y))
    IN  IF lengthSq = Zero
        THEN New("Vector", Zero, Zero)
        ELSE Vector_multiply_static(onto, Div(dot, lengthSq))

Vector_project_static(vector, onto) ==
    LET dot == Vector_dot(vector, onto)
        lengthSq == Add(Mul(onto.x, onto.x), Mul(onto.y, onto.y))
    IN  IF lengthSq = Zero
        THEN New("Vector", Zero, Zero)
        ELSE LET projectedPoint == Vector_multiply_static(onto, Div(dot, lengthSq))
             IN  New("Vector", projectedPoint.x, projectedPoint.y)

---------------------------------------------------------------------------
(* SpecProject: the receiver Vector at address 1, onto at address 2, one    *)
(* call of project in its instance or static form; out is the address of    *)
(* the object returned.                                                     *)

ProjectCoordMax == 2

ProjectVectors ==
    {New("Vector", Num(x), Num(y)) : x, y \in -ProjectCoordMax..ProjectCoordMax}

InitProject ==
    /\ pc = "call"
    /\ op = Call("init", 0)
    /\ inp \in [vector : ProjectVectors, onto : ProjectVectors]
    /\ out = None
    /\ heap = <<inp.vector, inp.onto>>
    /\ poly = <<>>
    /\ held = None

CallProject ==
    /\ pc = "call"
    /\ pc' = "done"
    /\ op' = Call("project", 0)
    /\ heap' = Alloc(heap, Vector_project(heap[1], heap[2]))
    /\ out' = Len(heap) + 1
    /\ UNCHANGED <<inp, poly, held>>

CallProjectStatic ==
    /\ pc = "call"
    /\ pc' = "done"
    /\ op' = Call("staticProject", 0)
    /\ heap' = Alloc(heap, Vector_project_static(heap[1], heap[2]))
    /\ out' = Len(heap) + 1
    /\ UNCHANGED <<inp, poly, held>>

NextProject == CallProject \/ CallProjectStatic

SpecProject == InitProject /\ [][NextProject]_vars

\* The projection of v onto a vector o of non-zero length is the one multiple
\* r of o for which v - r is at a right angle to o.
IsProjection(r, v, o) ==
    /\ Sub(Mul(r.x, o.y), Mul(r.y, o.x)) = Zero
    /\ Add(Mul(Sub(v.x, r.x), o.x), Mul(Sub(v.y, r.y), o.y)) = Zero

ProjectCoordinatesRight ==
    /\ heap[1] = inp.vector
    /\ heap[2] = inp.onto
    /\ out = 3
    /\ IF inp.onto.x = Zero /\ inp.onto.y = Zero
       THEN heap[3].x = Zero /\ heap[3].y = Zero
       ELSE IsProjection(heap[3], inp.vector, inp.onto)

\* C19 as stated: both forms of project leave the receiver and onto
\* unchanged and return a new Vector instance, the zero vector when onto has
\* zero length and the projection otherwise, of the same kind in both forms.
C19_Project ==
    (pc = "done") =>
        /\ ProjectCoordinatesRight
        /\ heap[3].class = "Vector"

\* C19 without the kind of the value returned: both forms leave the inputs
\* unchanged and return a new object with the coordinates of the projection.
C19_ProjectCoordinates == (pc = "done") => ProjectCoordinatesRight

\* C19: the static form always returns a Vector; the instance form returns
\* a Vector exactly when onto has zero length.
C19_KindReturned ==
    (pc = "done") =>
        (heap[3].class = "Vector"
            <=> (op.name = "staticProject" \/ (inp.onto.x = Zero /\ inp.onto.y = Zero)))

---------------------------------------------------------------------------
(* SpecRectNormalize: a Rectangle at address 1 whose width and height may   *)
(* be negative.  normalize() is called on it once and then once more;       *)
(* fromPoints is called with its corner (x, y) as p1 and the opposite       *)
(* corner (x + width, y + height) as p2.                                    *)

NormCoordMax == 1
NormSizeMax == 2

NormRects ==
    {Rect(Num(x), Num(y), Num(w), Num(h)) :
        x, y \in -1..NormCoordMax, w, h \in -NormSizeMax..NormSizeMax}

InitRectNormalize ==
    /\ pc = "call"
    /\ op = Call("init", 0)
    /\ inp \in [rect : NormRects]
    /\ out = None
    /\ heap = <<inp.rect>>
    /\ poly = <<>>
    /\ held = None

\* r.normalize(): the receiver is changed in place and returned.
CallNormalize ==
    /\ pc = "call"
    /\ pc' = "normalized"
    /\ op' = Call("normalize", 1)
    /\ heap' = [heap EXCEPT ![1] = Rectangle_normalize(heap[1])]
    /\ out' = 1
    /\ held' = [first |-> heap'[1]]
    /\ UNCHANGED <<inp, poly>>

\* A second r.normalize() on the same receiver.
CallNormalizeAgain ==
    /\ pc = "normalized"
    /\ pc' = "again"
    /\ op' = Call("normalize", 1)
    /\ heap' = [heap EXCEPT ![1] = Rectangle_normalize(heap[1])]
    /\ out' = 1
    /\ UNCHANGED <<inp, poly, held>>

\* Rectangle.fromPoints(p1, p2) and Rectangle.fromPoints(p2, p1).
CallFromPoints ==
    /\ pc = "call"
    /\ pc' = "done"
    /\ op' = Call("fromPoints", 0)
    /\ LET p1 == Pt(heap[1].x, heap[1].y)
           p2 == Pt(Rectangle_right(heap[1]), Rectangle_bottom(heap[1]))
       IN  /\ out' = [p1 |-> p1, p2 |-> p2,
                      ret |-> Rectangle_fromPoints(p1, p2),
                      swapped |-> Rectangle_fromPoints(p2, p1)]
           /\ heap' = Alloc(heap, out'.ret)
    /\ UNCHANGED <<inp, poly, held>>

NextRectNormalize == CallNormalize \/ CallNormalizeAgain \/ CallFromPoints

SpecRectNormalize == InitRectNormalize /\ [][NextRectNormalize]_vars

\* The x coordinates and the y coordinates of the four corners.
CornerXs(r) == {r.x, Add(r.x, r.width)}

CornerYs(r) == {r.y, Add(r.y, r.height)}

\* C20: normalize() changes the receiver so that width >= 0 and height >= 0
\* with the same four corners, returns the receiver, leaves a normalized
\* rectangle untouched and changes nothing when called again; fromPoints
\* returns a normalized rectangle with p1 and p2 as opposite corners, the
\* same one for either order of the points.
C20_Normalize ==
    /\ (pc \in {"normalized", "again"}) =>
          /\ out = 1
          /\ Len(heap) = 1
          /\ Normalized(heap[1])
          /\ CornerXs(heap[1]) = CornerXs(inp.rect)
          /\ CornerYs(heap[1]) = CornerYs(inp.rect)
          /\ Normalized(inp.rect) => heap[1] = inp.rect
          /\ heap[1] = held.first
    /\ (pc = "done") =>
          /\ Normalized(out.ret)
          /\ CornerXs(out.ret) = {out.p1.x, out.p2.x}
          /\ CornerYs(out.ret) = {out.p1.y, out.p2.y}
          /\ out.swapped = out.ret
          /\ heap[1] = inp.rect

\* C20 witness, normalize: a rectangle with negative width and height has
\* been normalized twice.
C20_Witness ==
    /\ pc = "again"
    /\ Lt(inp.rect.width, Zero)
    /\ Lt(inp.rect.height, Zero)
    /\ heap[1] # inp.rect

\* fromPoints with p2 to the left of and above p1.
FromPointsReversed ==
    /\ pc = "done"
    /\ Lt(out.p2.x, out.p1.x)
    /\ Lt(out.p2.y, out.p1.y)
    /\ out.ret.x = out.p2.x

---------------------------------------------------------------------------
(* The history store of src/src/stores/history.store.ts.                    *)
(*                                                                          *)
(* In the history specifications `held` is the store's state (history,     *)
(* historyIndex, canUndo, canRedo), `out.applied` lists the commands whose  *)
(* effect is applied (executed and not undone since), `op` describes the    *)
(* last call of the store (its name, its command, whether it threw, and the *)
(* calls it made to command methods, in order) and `inp.before` is the      *)
(* store's state before that call.  historyIndex counts from 0 as in the    *)
(* source, so history[i] of the source is history[i + 1] here.              *)
(*                                                                          *)
(* A command is a sequence of identifiers: <<a>> is a command whose         *)
(* execute() only has its own effect; the execute() of <<a, b, ..>> has its *)
(* own effect and then calls executeCommand(<<b, ..>>) on the store.        *)

Store(history, historyIndex, canUndo, canRedo) ==
    [history |-> history, historyIndex |-> historyIndex,
     canUndo |-> canUndo, canRedo |-> canRedo]

StoreInit == Store(<<>>, -1, FALSE, FALSE)

\* A call in progress: the store, the applied commands, the calls made to
\* command methods and whether an error is propagating.
Run(store, applied) ==
    [store |-> store, applied |-> applied, calls |-> <<>>, threw |-> FALSE]

\* Mutant of newHistory: the redo tail is kept.
newHistory_keepTail(s) == s.history

\* const newHistory = historyIndex < history.length - 1 ? history.slice(0, historyIndex + 1) : history
newHistory(s) ==
    IF s.historyIndex < Len(s.history) - 1
    THEN SubSeq(s.history, 1, s.historyIndex + 1)
    ELSE s.history

\* The set({..}) of executeCommand, merged into the current state s.
executeCommand_set(s, nh, command) ==
    LET updatedHistory == Append(nh, command)
        updatedIndex == Len(updatedHistory) - 1
    IN  [s EXCEPT !.history = updatedHistory,
                  !.historyIndex = updatedIndex,
                  !.canUndo = TRUE,
                  !.canRedo = updatedIndex < Len(updatedHistory) - 2]

\* The set({..}) of undo; historyIndex is the value read by get().
undo_set(s, historyIndex) ==
    [s EXCEPT !.historyIndex = historyIndex - 1,
              !.canUndo = historyIndex > 0,
              !.canRedo = TRUE]

\* Mutant of redo_set: canRedo is computed as if the index had not moved.
redo_set_offByOne(s, history, historyIndex) ==
    [s EXCEPT !.historyIndex = historyIndex + 1,
              !.canUndo = TRUE,
              !.canRedo = historyIndex < Len(history) - 1]

\* The set({..}) of redo; history and historyIndex are the values read by get().
redo_set(s, history, historyIndex) ==
    [s EXCEPT !.historyIndex = historyIndex + 1,
              !.canUndo = TRUE,
              !.canRedo = historyIndex < Len(history) - 2]

\* The effect of command.undo(): the last application of the command is
\* taken back.
RECURSIVE RemoveLast(_, _)
RemoveLast(applied, command) ==
    IF applied = <<>> THEN <<>>
    ELSE IF applied[Len(applied)] = command
         THEN SubSeq(applied, 1, Len(applied) - 1)
         ELSE Append(RemoveLast(SubSeq(applied, 1, Len(applied) - 1), command),
                     applied[Len(applied)])

\* executeCommand(command); fail says that command.execute() throws.
RECURSIVE executeCommand(_, _, _)
executeCommand(st, command, fail) ==
    LET nh == newHistory(st.store)
        st1 == [st EXCEPT !.calls = Append(@, <<"execute", command>>)]
    IN  IF fail
        THEN [st1 EXCEPT !.threw = TRUE]
        ELSE LET st2 == [st1 EXCEPT !.applied = Append(@, command)]
                 st3 == IF Len(command) > 1
                        THEN executeCommand(st2, Tail(command), FALSE)
                        ELSE st2
             IN  [st3 EXCEPT !.store = executeCommand_set(st3.store, nh, command)]

\* Mutant of History_undo: the state is set before command.undo() is called.
History_undo_setFirst(st, fail) ==
    LET history == st.store.history
        historyIndex == st.store.historyIndex
    IN  IF historyIndex >= 0
        THEN LET command == history[historyIndex + 1]
                 st1 == [st EXCEPT !.store = undo_set(st.store, historyIndex),
                                   !.calls = Append(@, <<"undo", command>>)]
             IN  IF fail
                 THEN [st1 EXCEPT !.threw = TRUE]
                 ELSE [st1 EXCEPT !.applied = RemoveLast(@, command)]
        ELSE st

\* undo(); fail says that command.undo() throws.
History_undo(st, fail) ==
    LET history == st.store.history
        historyIndex == st.store.historyIndex
    IN  IF historyIndex >= 0
        THEN LET command == history[historyIndex + 1]
                 st1 == [st EXCEPT !.calls = Append(@, <<"undo", command>>)]
             IN  IF fail
                 THEN [st1 EXCEPT !.threw = TRUE]
                 ELSE [st1 EXCEPT !.applied = RemoveLast(@, command),
                                  !.store = undo_set(st1.store, historyIndex)]
        ELSE st

\* Mutant of History_redo: the command at historyIndex is executed again.
History_redo_current(st, fail) ==
    LET history == st.store.history
        historyIndex == st.store.historyIndex
    IN  IF historyIndex + 1 < Len(history)
        THEN LET command == history[IF historyIndex >= 0 THEN historyIndex + 1 ELSE 1]
                 st1 == [st EXCEPT !.calls = Append(@, <<"execute", command>>)]
             IN  IF fail
                 THEN [st1 EXCEPT !.threw = TRUE]
                 ELSE [st1 EXCEPT !.applied = Append(@, command),
                                  !.store = redo_set(st1.store, history, historyIndex)]
        ELSE st

\* redo(); fail says that command.execute() throws.
History_redo(st, fail) ==
    LET history == st.store.history
        historyIndex == st.store.historyIndex
    IN  IF historyIndex + 1 < Len(history)
        THEN LET command == history[historyIndex + 2]
                 st1 == [st EXCEPT !.calls = Append(@, <<"execute", command>>)]
             IN  IF fail
                 THEN [st1 EXCEPT !.threw = TRUE]
                 ELSE [st1 EXCEPT !.applied = Append(@, command),
                                  !.store = redo_set(st1.store, history, historyIndex)]
        ELSE st

---------------------------------------------------------------------------
(* SpecHistory: any sequence of executeCommand, undo and redo with commands *)
(* that do not call back into the store and whose methods may throw.        *)

HistCommandCount == 2
HistMaxLen == 3
HistMaxNest == 2

PlainCommands == {<<k>> : k \in 1..HistCommandCount}

LastCall(name, command, run) ==
    [name |-> name, command |-> command, threw |-> run.threw, calls |-> run.calls]

InitHistory ==
    /\ pc = "idle"
    /\ op = LastCall("init", <<>>, Run(StoreInit, <<>>))
    /\ inp = [before |-> StoreInit]
    /\ out = [applied |-> <<>>]
    /\ heap = <<>>
    /\ poly = <<>>
    /\ held = StoreInit

ExecuteCommand ==
    \E command \in PlainCommands, fail \in BOOLEAN :
        /\ Len(newHistory(held)) < HistMaxLen
        /\ LET run == executeCommand(Run(held, out.applied), command, fail)
           IN  /\ held' = run.store
               /\ out' = [applied |-> run.applied]
               /\ op' = LastCall("executeCommand", command, run)
        /\ inp' = [before |-> held]
        /\ UNCHANGED <<pc, heap, poly>>

Undo ==
    \E fail \in BOOLEAN :
        /\ LET run == History_undo(Run(held, out.applied), fail)
           IN  /\ held' = run.store
               /\ out' = [applied |-> run.applied]
               /\ op' = LastCall("undo", <<>>, run)
        /\ inp' = [before |-> held]
        /\ UNCHANGED <<pc, heap, poly>>

Redo ==
    \E fail \in BOOLEAN :
        /\ LET run == History_redo(Run(held, out.applied), fail)
           IN  /\ held' = run.store
               /\ out' = [applied |-> run.applied]
               /\ op' = LastCall("redo", <<>>, run)
        /\ inp' = [before |-> held]
        /\ UNCHANGED <<pc, heap, poly>>

NextHistory == ExecuteCommand \/ Undo \/ Redo

SpecHistory == InitHistory /\ [][NextHistory]_vars

\* C22: in every reachable state of the store -1 <= historyIndex <=
\* history.length - 1, canUndo is true exactly when historyIndex >= 0 and
\* canRedo exactly when historyIndex < history.length - 1.
C22_StoreInvariant ==
    /\ held.historyIndex >= -1
    /\ held.historyIndex <= Len(held.history) - 1
    /\ held.canUndo <=> (held.historyIndex >= 0)
    /\ held.canRedo <=> (held.historyIndex < Len(held.history) - 1)

\* C22 witness: after a redo that leaves one more entry to redo.
C22_Witness ==
    /\ op.name = "redo"
    /\ op.calls # <<>>
    /\ ~op.threw
    /\ held.canRedo
    /\ held.canUndo
    /\ held.historyIndex = 0

\* C23: executeCommand(c) calls c.execute() exactly once, discards the
\* entries after historyIndex, appends c and leaves historyIndex at c with
\* canUndo true and canRedo false; the entries up to the old historyIndex
\* stay as they were.
C23_ExecuteCommand ==
    [][(op'.name = "executeCommand" /\ ~op'.threw) =>
          /\ op'.calls = <<<<"execute", op'.command>>>>
          /\ held'.history =
                Append(SubSeq(held.history, 1, held.historyIndex + 1), op'.command)
          /\ held'.historyIndex = Len(held'.history) - 1
          /\ held'.canUndo
          /\ ~held'.canRedo]_vars

\* C23 witness: an executeCommand that discarded a redo tail and kept an
\* earlier entry.
C23_Witness ==
    /\ op.name = "executeCommand"
    /\ ~op.threw
    /\ inp.before.historyIndex = 0
    /\ Len(inp.before.history) = 3
    /\ Len(held.history) = 2
    /\ held.history[2] # inp.before.history[2]

IsEffective(o) == o.calls # <<>> /\ ~o.threw

\* C24: the commands applied are exactly history[0..historyIndex] in order;
\* undo() calls undo() only on history[historyIndex] and redo() execute()
\* only on history[historyIndex + 1]; undo() followed by redo() restores
\* the store; undo() at -1 and redo() at the end call no command and change
\* nothing.
C24_UndoRedo ==
    /\ [](out.applied = SubSeq(held.history, 1, held.historyIndex + 1))
    /\ [][/\ (op'.name = "undo" /\ held.historyIndex >= 0) =>
                op'.calls = <<<<"undo", held.history[held.historyIndex + 1]>>>>
          /\ (op'.name = "redo" /\ held.historyIndex < Len(held.history) - 1) =>
                op'.calls = <<<<"execute", held.history[held.historyIndex + 2]>>>>
          /\ (op'.name = "undo" /\ held.historyIndex = -1) =>
                (op'.calls = <<>> /\ held' = held /\ out' = out)
          /\ (op'.name = "redo" /\ held.historyIndex = Len(held.history) - 1) =>
                (op'.calls = <<>> /\ held' = held /\ out' = out)
          /\ (op.name = "undo" /\ IsEffective(op) /\ op'.name = "redo" /\ IsEffective(op')) =>
                held' = inp.before]_vars

\* C24 witness: a redo right after an undo, in the middle of the history.
C24_Witness ==
    /\ op.name = "redo"
    /\ IsEffective(op)
    /\ held.historyIndex = 1
    /\ Len(held.history) = 3
    /\ out.applied = SubSeq(held.history, 1, 2)

\* C25: when execute() throws during executeCommand or redo, or undo()
\* throws during undo, the store's state is what it was before the call.
C25_ThrowLeavesStore ==
    [][op'.threw => held' = held]_vars

\* C25 witness: undo() of a command threw while the history was not empty.
C25_Witness ==
    /\ op.name = "undo"
    /\ op.threw
    /\ held.historyIndex = 1
    /\ held = inp.before

---------------------------------------------------------------------------
(* SpecHistoryReentrant: as SpecHistory, with commands whose execute()      *)
(* calls executeCommand on the store (up to HistMaxNest levels).            *)

RECURSIVE Chains(_)
Chains(n) ==
    IF n = 1 THEN PlainCommands
    ELSE {<<k>> \o c : k \in 1..HistCommandCount, c \in Chains(n - 1)}

NestedCommands == UNION {Chains(n) : n \in 2..HistMaxNest}

\* Most applications of commands followed (commands dropped from the
\* history stay applied for ever).
HistMaxApplied == 4

ExecuteNested ==
    \E command \in NestedCommands :
        /\ Len(newHistory(held)) < HistMaxLen
        /\ Len(out.applied) + Len(command) <= HistMaxApplied
        /\ LET run == executeCommand(Run(held, out.applied), command, FALSE)
           IN  /\ held' = run.store
               /\ out' = [applied |-> run.applied]
               /\ op' = LastCall("executeCommand", command, run)
        /\ inp' = [before |-> held]
        /\ UNCHANGED <<pc, heap, poly>>

NextHistoryReentrant == ExecuteNested \/ ExecuteCommand \/ Undo \/ Redo

SpecHistoryReentrant == InitHistory /\ [][NextHistoryReentrant]_vars

\* The commands whose execute() the last call started, in order.
Started(o) == [i \in 1..Len(o.calls) |-> o.calls[i][2]]

\* s occurs in t, in order (not necessarily next to each other).
RECURSIVE IsSubsequence(_, _)
IsSubsequence(s, t) ==
    IF s = <<>> THEN TRUE
    ELSE IF t = <<>> THEN FALSE
    ELSE IF Head(s) = Head(t) THEN IsSubsequence(Tail(s), Tail(t))
    ELSE IsSubsequence(s, Tail(t))

\* C26 as stated: after an executeCommand whose command called
\* executeCommand itself, every command whose execute() ran is in
\* history[0..historyIndex], in the order in which the execute() calls
\* started.
C26_ReentrantKeepsAll ==
    (op.name = "executeCommand" /\ ~op.threw) =>
        IsSubsequence(Started(op), SubSeq(held.history, 1, held.historyIndex + 1))

\* C26: what the code does instead: only the outermost command is appended,
\* to the entries up to the historyIndex read before its execute() ran.
C26_OnlyOutermostKept ==
    (op.name = "executeCommand" /\ ~op.threw) =>
        /\ held.history = Append(newHistory(inp.before), op.command)
        /\ held.historyIndex = Len(held.history) - 1

---------------------------------------------------------------------------
(* Polygon.scale and Polygon.rotate with an explicit origin: forEach over   *)
(* the vertices from index i on, each changed in place.                     *)

RECURSIVE Polygon_scale(_, _, _, _, _)
Polygon_scale(h, vertices, i, factor, actualOrigin) ==
    IF i > Len(vertices) THEN h
    ELSE Polygon_scale(ScaleAbout(h, vertices[i], factor, actualOrigin),
                       vertices, i + 1, factor, actualOrigin)

RECURSIVE Polygon_rotate(_, _, _, _, _)
Polygon_rotate(h, vertices, i, k, actualOrigin) ==
    IF i > Len(vertices) THEN h
    ELSE Polygon_rotate(RotateAbout(h, vertices[i], k, actualOrigin),
                        vertices, i + 1, k, actualOrigin)

---------------------------------------------------------------------------
(* SpecOrigin: four Point objects at addresses 1..4.  A Line holds 1 and 2  *)
(* as start and end, a Polygon holds 1, 2, 3 as vertices, and the origin    *)
(* argument is one of the four objects (4 belongs to neither shape).        *)
(* inp.heap is the store before the call.                                   *)

OriginCoordMax == 1
OriginFactorMax == 2

OriginFactors == {Num(k) : k \in -1..OriginFactorMax} \cup {Frac(1, 2)}

OriginLine == Line_new(1, 2)

OriginVertices == <<1, 2, 3>>

InitOrigin ==
    /\ pc = "call"
    /\ op = Call("init", 0)
    /\ inp \in [heap : [1..4 -> GridPoints(0, OriginCoordMax)], origin : 1..4,
                factor : OriginFactors, turns : 1..3]
    /\ out = None
    /\ heap = inp.heap
    /\ poly = OriginVertices
    /\ held = [line |-> OriginLine]

CallLineScale ==
    /\ pc = "call"
    /\ pc' = "done"
    /\ op' = Call("lineScale", inp.origin)
    /\ heap' = Line_scale(heap, held.line, inp.factor, inp.origin)
    /\ UNCHANGED <<inp, out, poly, held>>

CallLineRotate ==
    /\ pc = "call"
    /\ pc' = "done"
    /\ op' = Call("lineRotate", inp.origin)
    /\ heap' = Line_rotate(heap, held.line, inp.turns, inp.origin)
    /\ UNCHANGED <<inp, out, poly, held>>

CallPolygonScale ==
    /\ pc = "call"
    /\ pc' = "done"
    /\ op' = Call("polygonScale", inp.origin)
    /\ heap' = Polygon_scale(heap, poly, 1, inp.factor, inp.origin)
    /\ UNCHANGED <<inp, out, poly, held>>

CallPolygonRotate ==
    /\ pc = "call"
    /\ pc' = "done"
    /\ op' = Call("polygonRotate", inp.origin)
    /\ heap' = Polygon_rotate(heap, poly, 1, inp.turns, inp.origin)
    /\ UNCHANGED <<inp, out, poly, held>>

NextOrigin == CallLineScale \/ CallLineRotate \/ CallPolygonScale \/ CallPolygonRotate

SpecOrigin == InitOrigin /\ [][NextOrigin]_vars

\* origin + factor * (v - origin)
ScaledAbout(v, factor, o) ==
    Pt(Add(o.x, Mul(factor, Sub(v.x, o.x))), Add(o.y, Mul(factor, Sub(v.y, o.y))))

\* v turned by k quarter turns about o.
RotatedAbout(v, k, o) ==
    LET dx == Sub(v.x, o.x)
        dy == Sub(v.y, o.y)
        d == <<Pt(dx, dy), Pt(Neg(dy), dx), Pt(Neg(dx), Neg(dy)), Pt(dy, Neg(dx))>>[(k % 4) + 1]
    IN  Pt(Add(o.x, d.x), Add(o.y, d.y))

\* The Points the operation named works on.
Members(name) ==
    IF name \in {"lineScale", "lineRotate"} THEN {1, 2} ELSE {1, 2, 3}

\* Where the operation named should take the point v.
Image(name, v) ==
    IF name \in {"lineScale", "polygonScale"}
    THEN ScaledAbout(v, inp.factor, inp.heap[inp.origin])
    ELSE RotatedAbout(v, inp.turns, inp.heap[inp.origin])

MapsAboutOrigin ==
    /\ \A a \in Members(op.name) : heap[a] = Image(op.name, inp.heap[a])
    /\ \A a \in (1..4) \ Members(op.name) : heap[a] = inp.heap[a]

\* C30 as stated: scale and rotate of a Line and of a Polygon with an
\* explicit origin leave the origin as it was and map every endpoint or
\* vertex v to origin + factor * (v - origin) (to its rotation about the
\* origin), also when the origin is one of the shape's own Point objects.
C30_OriginUntouched ==
    (pc = "done") => MapsAboutOrigin

\* C30 for an origin object that is not one of the shape's own Points.
C30_SeparateOrigin ==
    (pc = "done" /\ inp.origin \notin Members(op.name)) => MapsAboutOrigin

\* C30 for an origin object that is one of the shape's own Points and not
\* at (0, 0): that Point ends at (0, 0).
C30_OwnPointCollapses ==
    (pc = "done" /\ inp.origin \in Members(op.name)) => heap[inp.origin] = Point_zero

---------------------------------------------------------------------------
(* SpecConvexClose: isConvex() on a polygon, close(), isConvex() again, on  *)
(* the vertex lists of SpecIsConvex.                                        *)

CallIsConvexCloseIsConvex ==
    /\ pc = "call"
    /\ pc' = "done"
    /\ op' = "isConvexCloseIsConvex"
    /\ out' = [before |-> Polygon_isConvex(inp.vertices),
               closed |-> Polygon_close(inp.vertices),
               after |-> Polygon_isConvex(Polygon_close(inp.vertices))]
    /\ PureFrame

NextConvexClose == CallIsConvexCloseIsConvex

SpecConvexClose == InitIsConvex /\ [][NextConvexClose]_vars

\* C28 as stated: for a polygon with 3 or more vertices isConvex() gives the
\* same answer before and after close().
C28_SameAfterClose ==
    (pc = "done" /\ Len(inp.vertices) >= 3) => (out.after = out.before)

\* C28: close() changes the answer only from false to true, and only for a
\* polygon whose turn at the first vertex is opposite to another turn.
C28_OnlyFirstTurnLost ==
    (pc = "done" /\ Len(inp.vertices) >= 3 /\ out.after # out.before) =>
        /\ out.after
        /\ ~out.before
        /\ LET t == Turns(inp.vertices)
               m == Len(t)
           IN  /\ \E j \in 1..(m - 1) :
                     \/ Gt(t[m], Zero) /\ Lt(t[j], Zero)
                     \/ Lt(t[m], Zero) /\ Gt(t[j], Zero)
               /\ ~\E i, j \in 1..(m - 1) : Gt(t[i], Zero) /\ Lt(t[j], Zero)

---------------------------------------------------------------------------
(* Closedness under simplify, on the vertex lists of SpecSimplify.          *)

\* C29 as stated: simplify(tolerance) leaves isClosed() as it was, and the
\* first and the last vertex of the result are the first and the last
\* vertex of the original.
C29_SimplifyKeepsClosedness ==
    (pc = "done" /\ op = "simplify" /\ inp.vertices # <<>>) =>
        /\ Polygon_isClosed(out) <=> Polygon_isClosed(inp.vertices)
        /\ out # <<>>
        /\ out[1] = inp.vertices[1]
        /\ out[Len(out)] = inp.vertices[Len(inp.vertices)]

\* C29 for every polygon except a closed one whose vertex before the closing
\* copy is at the first vertex too.
C29_ExceptRepeatedClosing ==
    (/\ pc = "done"
     /\ op = "simplify"
     /\ inp.vertices # <<>>
     /\ ~(/\ Polygon_isClosed(inp.vertices)
          /\ inp.vertices[Len(inp.vertices) - 1] = inp.vertices[1])) =>
        /\ Polygon_isClosed(out) <=> Polygon_isClosed(inp.vertices)
        /\ out # <<>>
        /\ out[1] = inp.vertices[1]
        /\ out[Len(out)] = inp.vertices[Len(inp.vertices)]

---------------------------------------------------------------------------
(* The render loops of src/src/components/editor/Canvas.tsx (component      *)
(* "Canvas") and of the useCanvas hook, src/unnamed/part_002 ("useCanvas"). *)
(*                                                                          *)
(* In the canvas specifications inp is the component mounted and whether    *)
(* getContext('2d') gives a context, pc is the component's life cycle       *)
(* ("created", "mounted", "unmounted"), held.draw is the current draw prop  *)
(* (a new function object, numbered 1, 2, .., at every change) and `out` is *)
(* the page: out.frames the animation frames requested and not yet run or   *)
(* cancelled, each with its id and the draw function its callback closes    *)
(* over; out.nextId the id the next requestAnimationFrame returns;          *)
(* out.frameId[d] the frameId / animationFrameId variable of the effect     *)
(* that ran with draw d (0 for null or unset); out.invoked the draw         *)
(* functions invoked so far and out.last the one invoked last (0: none).    *)

CanvasMaxDraws == 4
CanvasMaxFrames == 6

Page(frames, nextId, frameId, invoked, last) ==
    [frames |-> frames, nextId |-> nextId, frameId |-> frameId,
     invoked |-> invoked, last |-> last]

\* requestAnimationFrame(() => render(..)) by the effect closed over `draw`,
\* the id returned being assigned to that effect's variable.
RequestAnimationFrame(page, draw) ==
    [page EXCEPT !.frames = @ \cup {[id |-> page.nextId, draw |-> draw]},
                 !.frameId[draw] = page.nextId,
                 !.nextId = @ + 1]

\* cancelAnimationFrame(id)
CancelAnimationFrame(page, id) ==
    [page EXCEPT !.frames = {f \in @ : f.id # id}]

\* draw(ctx)
InvokeDraw(page, draw) ==
    [page EXCEPT !.invoked = @ \cup {draw}, !.last = draw]

\* useCanvas: render(canvas, ctx) of the effect closed over `draw`:
\* resize, draw(ctx), animationFrameId = requestAnimationFrame(..).
useCanvas_render(page, draw) ==
    RequestAnimationFrame(InvokeDraw(page, draw), draw)

\* useCanvas: the effect body run with `draw`; it returns no cleanup.
useCanvas_effect(page, ctx, draw) ==
    IF ~ctx THEN page ELSE useCanvas_render(page, draw)

\* useCanvas: there is no cleanup function.
useCanvas_cleanup(page, draw) == page

\* Canvas: the effect body run with `draw`: frameId = null; render is
\* defined and not called.
Canvas_effect(page, ctx, draw) == [page EXCEPT !.frameId[draw] = 0]

\* Canvas: the cleanup of the effect that ran with `draw`:
\* if (frameId) cancelAnimationFrame(frameId).
Canvas_cleanup(page, draw) ==
    IF page.frameId[draw] # 0
    THEN CancelAnimationFrame(page, page.frameId[draw])
    ELSE page

Effect(component, page, ctx, draw) ==
    IF component = "Canvas" THEN Canvas_effect(page, ctx, draw)
    ELSE useCanvas_effect(page, ctx, draw)

\* The cleanup the effect returned, if it returned one: Canvas returns none
\* when there is no context.
Cleanup(component, page, ctx, draw) ==
    IF component = "Canvas"
    THEN IF ctx THEN Canvas_cleanup(page, draw) ELSE page
    ELSE useCanvas_cleanup(page, draw)

---------------------------------------------------------------------------
(* SpecCanvas: the component is mounted, its draw prop changes up to        *)
(* CanvasMaxDraws - 1 times, it may be unmounted, and the browser runs the  *)
(* animation frames requested, up to CanvasMaxFrames requests in all.       *)
(* SpecCanvasLive adds that the component is mounted and that a requested   *)
(* frame is eventually run.                                                 *)

InitCanvas ==
    /\ pc = "created"
    /\ op = Call("init", 0)
    /\ inp \in [component : {"Canvas", "useCanvas"}, ctx : BOOLEAN]
    /\ out = Page({}, 1, [d \in 1..CanvasMaxDraws |-> 0], {}, 0)
    /\ heap = <<>>
    /\ poly = <<>>
    /\ held = [draw |-> 1]

\* Mounting: the effect runs for the first time.
Mount ==
    /\ pc = "created"
    /\ pc' = "mounted"
    /\ op' = Call("mount", held.draw)
    /\ out' = Effect(inp.component, out, inp.ctx, held.draw)
    /\ UNCHANGED <<inp, heap, poly, held>>

\* A render with a changed draw prop: the cleanup of the last effect runs,
\* then the effect with the new draw.
ChangeDraw ==
    /\ pc = "mounted"
    /\ held.draw < CanvasMaxDraws
    /\ out.nextId <= CanvasMaxFrames
    /\ held' = [draw |-> held.draw + 1]
    /\ op' = Call("changeDraw", held'.draw)
    /\ out' = Effect(inp.component,
                     Cleanup(inp.component, out, inp.ctx, held.draw),
                     inp.ctx, held'.draw)
    /\ UNCHANGED <<pc, inp, heap, poly>>

\* Unmounting: the cleanup of the last effect runs.
Unmount ==
    /\ pc = "mounted"
    /\ pc' = "unmounted"
    /\ op' = Call("unmount", held.draw)
    /\ out' = Cleanup(inp.component, out, inp.ctx, held.draw)
    /\ UNCHANGED <<inp, heap, poly, held>>

\* The browser runs a requested animation frame: its callback calls the
\* render of the effect that requested it.
AnimationFrame ==
    \E frame \in out.frames :
        /\ out.nextId <= CanvasMaxFrames
        /\ op' = Call("frame", frame.draw)
        /\ out' = useCanvas_render([out EXCEPT !.frames = @ \ {frame}], frame.draw)
        /\ UNCHANGED <<pc, inp, heap, poly, held>>

NextCanvas == Mount \/ ChangeDraw \/ Unmount \/ AnimationFrame

SpecCanvas == InitCanvas /\ [][NextCanvas]_vars

SpecCanvasLive == SpecCanvas /\ WF_vars(Mount) /\ WF_vars(AnimationFrame)

\* C21 as stated: once the Canvas component is mounted with a context, its
\* draw callback is eventually invoked, unless the effect is cleaned up
\* first (unmount or a changed draw prop).
C21_DrawEventuallyInvoked ==
    \A draw \in 1..CanvasMaxDraws :
        (pc = "mounted" /\ inp.component = "Canvas" /\ inp.ctx /\ held.draw = draw)
            ~> (draw \in out.invoked \/ pc = "unmounted" \/ held.draw # draw)

\* C21: the Canvas component never invokes draw and never requests a frame.
C21_CanvasNeverDraws ==
    (inp.component = "Canvas") => (out.invoked = {} /\ out.frames = {})

\* C21 for the useCanvas hook: with a context, the current draw has been
\* invoked as soon as its effect has run.
C21_HookDraws ==
    (pc = "mounted" /\ inp.component = "useCanvas" /\ inp.ctx) =>
        held.draw \in out.invoked

\* The draw functions with a frame pending.
PendingDraws == {f.draw : f \in out.frames}

\* C27 as stated: with useCanvas at most one render loop is active; after
\* the effect re-ran for a changed draw, or after unmount, no frame of an
\* earlier effect is pending, so that an old draw is not invoked again.
C27_OneRenderLoop ==
    (inp.component = "useCanvas") =>
        /\ Cardinality(out.frames) <= 1
        /\ PendingDraws \subseteq (IF pc = "mounted" THEN {held.draw} ELSE {})

\* C27: what the hook does instead: every effect that ran with a context
\* keeps one frame pending for ever.
C27_LoopsNeverEnd ==
    (inp.component = "useCanvas" /\ inp.ctx /\ pc # "created") =>
        /\ PendingDraws = 1..held.draw
        /\ Cardinality(out.frames) = held.draw

====
